---------------------------- MODULE Spec2Model ----------------------------
(***************************************************************************)
(* Model of the x2node database layer: the MySQL connection wrapper and    *)
(* its transaction status, the pool and single connection providers and    *)
(* their shutdown, and the transaction orchestrator Transaction.execute(). *)
(*                                                                         *)
(* The mysql2 driver is an external collaborator: every command handed to  *)
(* it is answered later, in the order sent, with success, a non-fatal      *)
(* error or a fatal error.                                                 *)
(***************************************************************************)
EXTENDS Naturals, Sequences, FiniteSets, TLC

VARIABLES
  released,     \* MySQLDatabaseConnection._released
  txStatus,     \* MySQLDatabaseConnection._txStatus
  fatalError,   \* MySQLDatabaseConnection._fatalError
  rawQueue,     \* commands handed to the raw connection and not yet answered
  physical,     \* the physical connection as the pool sees it (with several
                \* callers of the pool provider: the one granted or released last)
  lastEvent,    \* the last call or callback on the connection and its outcome
  tx,           \* one run of Transaction.execute(): its position and what it did
  shutDown,             \* MySQLSingleConnectionProvider._shutDown
  provFatalError,       \* MySQLSingleConnectionProvider._fatalError
  connectionAllocated,  \* MySQLSingleConnectionProvider._connectionAllocated
  connectionBlocker,    \* MySQLSingleConnectionProvider._connectionBlocker
  rawState,             \* the provider's physical connection
  microtasks,           \* the promise jobs queued, first to run first
  inBlock,              \* application code is running
  caller,               \* each caller of getConnection(): where it stands
  holders,              \* the callers holding an unreleased Connection
  pendingOrder,         \* the callers of unsettled getConnection() calls, by arrival
  provEvent,            \* the last call on the single connection provider and its outcome
  rawEndCalls,          \* calls of end() on the provider's physical connection
  rawDestroyCalls,      \* calls of destroy() on the provider's physical connection
  isPoolOptions,        \* the options given ask for a pool provider
  poolShutDown,         \* MySQLPoolConnectionProvider._shutDown
  rawPoolEndCalls,      \* calls of end() on the underlying pool
  poolCaller,           \* each caller of the pool provider: where it stands
  poolEvent,            \* the last call on the pool provider and its outcome
  monitors,             \* each transaction's monitor: its state and its locks
  creation,             \* one call of createMySQLDatabaseConnectionProvider
  declared,             \* Application._serviceBinders: what each service is like
  app,                  \* the Application: its fields and what it has done
  runs                  \* the runs of execute() of the monitor provider variant

conVars == <<released, txStatus, fatalError, rawQueue, physical>>

spVars == <<shutDown, provFatalError, connectionAllocated, connectionBlocker,
            rawState, microtasks, inBlock, caller, holders, pendingOrder,
            provEvent, rawEndCalls, rawDestroyCalls>>

ppVars == <<isPoolOptions, poolShutDown, rawPoolEndCalls, poolCaller, poolEvent>>

monVars == <<monitors>>

\* the components beside the connection, the providers and the orchestrator
appVars == <<declared, app>>

restVars == <<monVars, creation, appVars, runs>>

vars == <<released, txStatus, fatalError, rawQueue, physical, lastEvent, tx,
          shutDown, provFatalError, connectionAllocated, connectionBlocker,
          rawState, microtasks, inBlock, caller, holders, pendingOrder,
          provEvent, rawEndCalls, rawDestroyCalls,
          isPoolOptions, poolShutDown, rawPoolEndCalls, poolCaller, poolEvent,
          monitors, creation, declared, app,
          runs>>

\* what the steps of a connection driven by any caller leave alone
outsideConn == <<tx, spVars, ppVars, restVars>>

\* what the steps of Transaction.execute() leave alone
outsideTx == <<lastEvent, spVars, ppVars, restVars>>

\* what the steps of the single connection provider leave alone
outsideSingle == <<conVars, lastEvent, tx, ppVars, restVars>>

\* what the steps of the pool provider leave alone
outsidePool ==
  <<released, txStatus, fatalError, rawQueue, lastEvent, tx, spVars, restVars>>

----------------------------------------------------------------------------
(* Bounds *)

\* commands outstanding at the driver at one time
MaxOutstanding == 2

\* rows a query delivers at most
MaxRows == 2

\* statements the master step runs at most
MaxStepCalls == 2

\* callers of a connection provider
NumCallers == 3

\* connectionLimit of the pool options: connections the pool opens at most
ConnectionLimit == 2

----------------------------------------------------------------------------
(* Errors: an error object is its origin and its "fatal" property. *)

NoError == [name |-> "none", fatal |-> FALSE]

Err(n, f) == [name |-> n, fatal |-> f]

\* the errors the driver may report for a command: none, non-fatal, fatal
DriverReplies(cmd) == {NoError, Err(cmd, FALSE), Err(cmd, TRUE)}

\* the errors a result parser may throw from addRow or getResult
ParserThrows == {NoError, Err("parser", FALSE), Err("parser", TRUE)}

ProgrammingError == Err("programming", FALSE)

\* thrown is the first error the result parser threw for the command
Command(c) ==
  [cmd |-> c, error |-> NoError, rows |-> 0, failed |-> FALSE,
   thrown |-> NoError]

\* parser is the method of the result parser the handler called, and
\* thrown the error that the method threw
Event(o, r, e, s) ==
  [op |-> o, res |-> r, err |-> e, sent |-> s, parser |-> "none",
   thrown |-> NoError]

ParserEvent(o, r, e, method, thrown) ==
  [Event(o, r, e, FALSE) EXCEPT !.parser = method, !.thrown = thrown]

Callers == 1..NumCallers

\* new Error("The connection provider is shutting down or is shut.")
ShutDownError == Err("shutDown", FALSE)

\* a call on a provider: who called, what it came to, with which error
ProvEvent(o, c, r, e) == [op |-> o, who |-> c, res |-> r, err |-> e]

\* _connectionBlocker = null; a Blocker is the sequence of the callers whose
\* callbacks wait on its promise (it is created with its first waiter)
NoBlocker == <<>>

\* the single connection provider after construction, nobody calling
SingleIdle ==
  /\ shutDown = FALSE
  /\ provFatalError = NoError
  /\ connectionAllocated = FALSE
  /\ connectionBlocker = NoBlocker
  /\ rawState = "connected"
  /\ microtasks = <<>>
  /\ inBlock = FALSE
  /\ caller = [c \in Callers |-> "idle"]
  /\ holders = {}
  /\ pendingOrder = <<>>
  /\ provEvent = ProvEvent("init", 0, "ok", NoError)
  /\ rawEndCalls = 0
  /\ rawDestroyCalls = 0

\* the pool provider after construction, nobody calling
PoolIdle ==
  /\ poolShutDown = FALSE
  /\ rawPoolEndCalls = 0
  /\ poolCaller = [c \in Callers |-> "idle"]
  /\ poolEvent = ProvEvent("init", 0, "ok", NoError)

\* a promise: pending, or settled with a value or an error
Promise(state, value, err) == [state |-> state, value |-> value, err |-> err]

PendingPromise == Promise("pending", "none", NoError)

\* mysql2's connection._handshakePacket, absent before the handshake
NoHandshake == [present |-> FALSE, serverVersion |-> <<>>]

\* createMySQLDatabaseConnectionProvider has not been called
NotCreating ==
  [pc |-> "start", raw |-> "none", handshake |-> NoHandshake,
   fatalError |-> NoError, promise |-> PendingPromise,
   rawAtSettle |-> "none", conReleased |-> FALSE, logged |-> NoError]

\* services configured on an application at most
NumServices == 2

\* calls of Application.init() and of Application.shutdown() at most
MaxInitCalls == 1

MaxShutdownCalls == 2

\* new Application() with n service binders added: nothing initialized.
\* Service i is the one of the i-th binder, and i stands for its key.
NewApplication(n) ==
  [ready |-> FALSE, initPromise |-> FALSE, shutdownPromise |-> FALSE,
   abortInit |-> FALSE, services |-> <<>>, bound |-> {},
   factory |-> [i \in 1..n |-> "notCalled"],
   sawBound |-> [i \in 1..n |-> {}], invoked |-> <<>>,
   chainNext |-> 1, chainState |-> "none", initErr |-> NoError,
   initOutcome |-> PendingPromise, produced |-> {},
   sd |-> [i \in 1..n |-> "none"], waits |-> [i \in 1..n |-> {}],
   sdLogged |-> [i \in 1..n |-> NoError], sdInvoked |-> <<>>,
   deferredShutdown |-> FALSE, shutdownOutcome |-> "none",
   initCalls |-> 0, shutdownCalls |-> 0]

\* transactions that ask the monitor for locks at the same time
NumTransactions == 2

Transactions == 1..NumTransactions

Segments == {"s1", "s2"}

NoMonitor == [state |-> "none", read |-> {}, write |-> {}]

\* no transaction has asked for a monitor
MonitorIdle == monitors = [t \in Transactions |-> NoMonitor]

\* the components beside the connection, the providers and the orchestrator,
\* untouched
\* execute() calls of the monitor provider variant running at one time
NumRuns == 2

\* one run of execute() of the monitor provider variant before it starts:
\* its place in the promise chain, whether a connection was acquired and a
\* monitor allocated, the release() calls made so far, the call that threw
\* and what the returned promise settled with
NewRun ==
  [pc |-> "idle", acquired |-> FALSE, allocated |-> FALSE,
   releases |-> <<>>, threw |-> "none", outcome |-> "pending"]

RestIdle ==
  /\ MonitorIdle
  /\ creation = NotCreating
  /\ declared = <<>>
  /\ app = NewApplication(0)
  /\ runs = [r \in 1..NumRuns |-> NewRun]

----------------------------------------------------------------------------
(* Pool provider's releaser: pool-provider.ts, getConnection *)

poolReleaser(err) ==
  physical' = IF err # NoError /\ err.fatal THEN "destroyed" ELSE "inPool"

----------------------------------------------------------------------------
(* MySQLDatabaseConnection: the outcome of each call in the current state. *)
(* "throw" is a synchronously thrown programming error, "reject" a promise *)
(* rejected with the stored fatal error, "pending" a command handed to the *)
(* driver.                                                                 *)

\* mutant: release() does not look at the transaction status
releaseOutcomeNoTxCheck ==
  IF released THEN "throw" ELSE "ok"

\* mutant: release() does not look at the released flag
releaseOutcomeNoReleasedCheck ==
  IF txStatus > 0 THEN "throw" ELSE "ok"

releaseOutcome ==
  IF released THEN "throw"
  ELSE IF txStatus > 0 THEN "throw"
  ELSE "ok"

beginTransactionOutcome ==
  IF released THEN "throw"
  ELSE IF txStatus > 0 THEN "throw"
  ELSE IF fatalError # NoError THEN "reject"
  ELSE "pending"

\* mutant: endTransaction(Commit) does not look at the transaction status
endTransactionOutcomeNoCommitCheck(res) ==
  IF released THEN "throw"
  ELSE IF fatalError # NoError THEN "reject"
  ELSE IF res = "Commit"
    THEN "pending"
    ELSE IF txStatus < 3 THEN "throw" ELSE "pending"

endTransactionOutcome(res) ==
  IF released THEN "throw"
  ELSE IF fatalError # NoError THEN "reject"
  ELSE IF res = "Commit"
    THEN IF txStatus < 4 THEN "throw" ELSE "pending"
    ELSE IF txStatus < 3 THEN "throw" ELSE "pending"

\* mutant: a statement is refused in a transitional status only
executeStatementOutcomeStatusOnly ==
  IF released THEN "throw"
  ELSE IF txStatus > 0 /\ txStatus < 4 THEN "throw"
  ELSE "pending"

executeStatementOutcome ==
  IF released THEN "throw"
  ELSE IF fatalError # NoError THEN "reject"
  ELSE IF txStatus > 0 /\ txStatus < 4 THEN "throw"
  ELSE "pending"

executeQueryOutcome(created) ==
  IF released THEN "throw"
  ELSE IF fatalError # NoError THEN "reject"
  ELSE IF txStatus > 0 /\ txStatus < 4 THEN "throw"
  ELSE IF created THEN "pending"
  ELSE "nocreate"

\* the error a call fails with, NoError when it does not fail at once
CallError(outcome) ==
  CASE outcome = "throw" -> ProgrammingError
    [] outcome = "reject" -> fatalError
    [] outcome = "nocreate" -> Err("nocreate", TRUE)
    [] OTHER -> NoError

----------------------------------------------------------------------------
(* MySQLDatabaseConnection: the calls *)

release ==
  /\ IF releaseOutcome = "ok"
       THEN released' = TRUE /\ poolReleaser(fatalError)
       ELSE UNCHANGED <<released, physical>>
  /\ UNCHANGED <<txStatus, fatalError, rawQueue>>

beginTransaction ==
  /\ IF beginTransactionOutcome = "pending"
       THEN /\ txStatus' = 1
            /\ rawQueue' = Append(rawQueue, Command("START"))
       ELSE UNCHANGED <<txStatus, rawQueue>>
  /\ UNCHANGED <<released, fatalError, physical>>

\* the status endTransaction(Rollback) leaves while ROLLBACK is outstanding
rollbackPendingStatus == 1

endTransaction(res) ==
  /\ IF endTransactionOutcome(res) = "pending"
       THEN IF res = "Commit"
              THEN /\ txStatus' = 2
                   /\ rawQueue' = Append(rawQueue, Command("COMMIT"))
              ELSE /\ txStatus' = rollbackPendingStatus
                   /\ rawQueue' = Append(rawQueue, Command("ROLLBACK"))
       ELSE UNCHANGED <<txStatus, rawQueue>>
  /\ UNCHANGED <<released, fatalError, physical>>

executeStatement ==
  /\ IF executeStatementOutcome = "pending"
       THEN rawQueue' = Append(rawQueue, Command("STMT"))
       ELSE UNCHANGED rawQueue
  /\ UNCHANGED <<released, txStatus, fatalError, physical>>

executeQuery(created) ==
  /\ CASE executeQueryOutcome(created) = "pending" ->
            /\ rawQueue' = Append(rawQueue, Command("QUERY"))
            /\ UNCHANGED <<txStatus, fatalError>>
       [] executeQueryOutcome(created) = "nocreate" ->
            /\ txStatus' = 0
            /\ fatalError' = Err("nocreate", TRUE)
            /\ UNCHANGED rawQueue
       [] OTHER -> UNCHANGED <<txStatus, fatalError, rawQueue>>
  /\ UNCHANGED <<released, physical>>

----------------------------------------------------------------------------
(* MySQLDatabaseConnection: the driver's callbacks, for the command at the *)
(* head of the driver's queue.                                             *)

HeadIs(c) == rawQueue # <<>> /\ Head(rawQueue).cmd = c

beginCallback(err) ==
  /\ IF err # NoError
       THEN /\ txStatus' = 0
            /\ fatalError' = IF err.fatal THEN err ELSE fatalError
       ELSE /\ txStatus' = 4
            /\ UNCHANGED fatalError
  /\ rawQueue' = Tail(rawQueue)
  /\ UNCHANGED <<released, physical>>

commitCallback(err) ==
  /\ IF err # NoError
       THEN IF err.fatal
              THEN /\ txStatus' = 0
                   /\ fatalError' = err
              ELSE /\ txStatus' = 3
                   /\ UNCHANGED fatalError
       ELSE /\ txStatus' = 0
            /\ UNCHANGED fatalError
  /\ rawQueue' = Tail(rawQueue)
  /\ UNCHANGED <<released, physical>>

\* mutant: a failed ROLLBACK leaves the status as it was
rollbackCallbackKeepsStatus(err) ==
  /\ txStatus' = IF err # NoError THEN txStatus ELSE 0
  /\ fatalError' = IF err # NoError THEN err ELSE fatalError
  /\ rawQueue' = Tail(rawQueue)
  /\ UNCHANGED <<released, physical>>

\* mutant: a failed ROLLBACK is not recorded on the connection
rollbackCallbackDropsError(err) ==
  /\ txStatus' = 0
  /\ UNCHANGED fatalError
  /\ rawQueue' = Tail(rawQueue)
  /\ UNCHANGED <<released, physical>>

rollbackCallback(err) ==
  /\ txStatus' = 0
  /\ fatalError' = IF err # NoError THEN err ELSE fatalError
  /\ rawQueue' = Tail(rawQueue)
  /\ UNCHANGED <<released, physical>>

statementCallback(err) ==
  /\ IF err # NoError /\ err.fatal
       THEN /\ txStatus' = 0
            /\ fatalError' = err
       ELSE UNCHANGED <<txStatus, fatalError>>
  /\ rawQueue' = Tail(rawQueue)
  /\ UNCHANGED <<released, physical>>

\* query.on("result"): thrown is what parser.addRow throws, NoError if nothing
\* mutant: the handlers call the parser whether or not an error occurred
parserCalledAlways == TRUE

\* if (!error): the handlers of "result" and "end" call the parser only
\* when no error has occurred
parserCalled == Head(rawQueue).error = NoError

queryResult(thrown) ==
  /\ rawQueue' = [rawQueue EXCEPT
       ![1].rows = @ + 1,
       ![1].error = IF parserCalled THEN thrown ELSE @,
       ![1].thrown = IF parserCalled /\ @ = NoError THEN thrown ELSE @]
  /\ UNCHANGED <<released, txStatus, fatalError, physical>>

\* query.on("error")
queryError(err) ==
  /\ rawQueue' = [rawQueue EXCEPT
       ![1].failed = TRUE,
       ![1].error = IF Head(rawQueue).error = NoError THEN err ELSE @]
  /\ UNCHANGED <<released, txStatus, fatalError, physical>>

\* the error the "end" handler finishes with: thrown is what parser.getResult
\* throws when it is called
queryEndError(thrown) ==
  IF parserCalled THEN thrown ELSE Head(rawQueue).error

\* query.on("end")
queryEnd(thrown) ==
  /\ IF queryEndError(thrown) # NoError /\ queryEndError(thrown).fatal
       THEN /\ txStatus' = 0
            /\ fatalError' = queryEndError(thrown)
       ELSE UNCHANGED <<txStatus, fatalError>>
  /\ rawQueue' = Tail(rawQueue)
  /\ UNCHANGED <<released, physical>>

----------------------------------------------------------------------------
(* Transaction.execute(): one run.  tx.pc is the place in the promise      *)
(* chain; tx.caught is the err of the catch handler, tx.result what the    *)
(* chain has settled with before the finally handler, tx.outcome what      *)
(* the promise returned by execute() settles with.  The other fields       *)
(* record what the run did: the error the failing stage failed with        *)
(* (cause), the stage (failedAt), the calls made on the connection and on  *)
(* the monitor, the status the connection had when release() was called,   *)
(* and the rollback error handed to logger.error.  tx.calls lists, in      *)
(* order, the calls the run made on the connection, the monitor and the    *)
(* master step.                                                            *)

Pending == [state |-> "pending", err |-> NoError]

Resolved == [state |-> "resolved", err |-> NoError]

Rejected(e) == [state |-> "rejected", err |-> e]

\* this._masterStep.writeSegments: an optional array of segments
Undeclared == [defined |-> FALSE, segments |-> <<>>]

WriteSegments ==
  { Undeclared,
    [defined |-> TRUE, segments |-> <<>>],
    [defined |-> TRUE, segments |-> <<"s1">>] }

\* mutant: a declared array of write segments makes the run read/write,
\* empty or not
readWriteIfDeclared(writeSegments) == writeSegments.defined

\* line 70: writeSegments && writeSegments.length > 0
readWrite(writeSegments) ==
  writeSegments.defined /\ Len(writeSegments.segments) > 0

\* line 73: readWrite ? TxMode.ReadWrite : TxMode.ReadOnly
TxModeOf(rw) == IF rw THEN "ReadWrite" ELSE "ReadOnly"

Called(t, call) == [t EXCEPT !.calls = Append(@, call)]

\* the promise that call returned has resolved
HasResolved(t, call) == [t EXCEPT !.resolved = Append(@, call)]

TxIdle(ws) ==
  [pc |-> "idle", writeSegments |-> ws, readWrite |-> FALSE,
   calls |-> <<>>, resolved |-> <<>>, value |-> "none", acquired |-> FALSE,
   caught |-> NoError, result |-> Pending, outcome |-> Pending,
   stepCalls |-> 0, stepErr |-> NoError,
   cause |-> NoError, failedAt |-> "none", beginMode |-> "none",
   releaseCalls |-> 0, rollbackCalls |-> 0, commitCalls |-> 0,
   saveCalls |-> 0, statusAtRelease |-> 0, logged |-> NoError]

\* a stage fails with error e: the promise chain carries e to the catch
Fail(t, stage, e, next) ==
  [t EXCEPT !.cause = e, !.failedAt = stage, !.caught = e, !.pc = next]

\* this._conProvider.getConnection(), lines 66-67
afterGetConnection(t, err) ==
  IF err = NoError
    THEN [t EXCEPT !.pc = "acquired", !.acquired = TRUE]
    ELSE [t EXCEPT !.pc = "done", !.outcome = Rejected(err)]

\* the outer catch, lines 118-122: release and rethrow
outerCatch(t, err, relOutcome, status) ==
  [Called(Called(t, "beginTransaction"), "release")
     EXCEPT !.releaseCalls = @ + 1, !.statusAtRelease = status,
            !.cause = err, !.failedAt = "begin",
            !.outcome = IF relOutcome = "throw" THEN Rejected(ProgrammingError)
                                                ELSE Rejected(err),
            !.pc = "done"]

\* con.beginTransaction(...) was called, lines 69-74
afterBeginCall(t, outcome, stored) ==
  CASE outcome = "reject" ->
         [Fail(Called(t, "beginTransaction"), "begin", stored, "finally")
            EXCEPT !.result = Rejected(stored)]
    [] OTHER -> [Called(t, "beginTransaction") EXCEPT !.pc = "awaitBegin"]

\* mutant: a failed beginTransaction is sent to the catch handler
afterBeginRollsBack(t, err, monitorThrows) ==
  IF err # NoError
    THEN Fail(t, "begin", err, "catch")
  ELSE IF monitorThrows
    THEN Fail(Called(t, "monitorTransaction"), "monitor",
              Err("monitorThrow", FALSE), "innerCatch")
  ELSE [Called(t, "monitorTransaction") EXCEPT !.pc = "awaitMonitor"]

\* beginTransaction settled; on success monitorTransaction is called, which
\* may throw at once (lines 74-79, 104)
afterBegin(t, err, monitorThrows) ==
  IF err # NoError
    THEN [Fail(t, "begin", err, "finally") EXCEPT !.result = Rejected(err)]
  ELSE IF monitorThrows
    THEN Fail(Called(HasResolved(t, "beginTransaction"),
                     "monitorTransaction"),
              "monitor", Err("monitorThrow", FALSE), "innerCatch")
  ELSE [Called(HasResolved(t, "beginTransaction"), "monitorTransaction")
          EXCEPT !.pc = "awaitMonitor"]

\* monitorTransaction resolved: the master step is called, and may throw at
\* once (lines 79-83)
afterMonitorResolved(t, stepThrows) ==
  IF stepThrows
    THEN Fail(Called(HasResolved(t, "monitorTransaction"), "execute"),
              "step", Err("stepThrow", FALSE), "catch")
    ELSE [Called(HasResolved(t, "monitorTransaction"), "execute")
            EXCEPT !.pc = "inStep"]

afterMonitorRejected(t) == Fail(t, "monitor", Err("monitor", FALSE), "catch")

\* mutant: the transaction is committed without saving the segment updates
afterStepResolvedNoSave(t) ==
  [HasResolved(t, "execute") EXCEPT !.value = "context", !.pc = "commit"]

\* the master step resolved, lines 83-91: value is what the chain carries
\* from here on, the context the master step returned
afterStepResolved(t) ==
  IF t.readWrite
    THEN [Called(HasResolved(t, "execute"), "saveSegmentUpdates")
            EXCEPT !.value = "context", !.saveCalls = @ + 1,
                   !.pc = "awaitSave"]
    ELSE [HasResolved(t, "execute") EXCEPT !.value = "context",
                                           !.pc = "commit"]

afterStepRejected(t, e) == Fail(t, "step", e, "catch")

\* mon.saveSegmentUpdates() settled, lines 86, 91
afterSaveResolved(t) ==
  [HasResolved(t, "saveSegmentUpdates") EXCEPT !.pc = "commit"]

afterSaveRejected(t) == Fail(t, "save", Err("save", FALSE), "catch")

\* con.endTransaction(TxResolve.Commit) was called, lines 91-93
afterCommitCall(t, outcome, stored) ==
  CASE outcome = "throw" ->
         [Fail(Called(t, "endTransactionCommit"), "commit", ProgrammingError,
               "catch") EXCEPT !.commitCalls = @ + 1]
    [] outcome = "reject" ->
         [Fail(Called(t, "endTransactionCommit"), "commit", stored, "catch")
            EXCEPT !.commitCalls = @ + 1]
    [] OTHER -> [Called(t, "endTransactionCommit")
                   EXCEPT !.commitCalls = @ + 1, !.pc = "awaitCommit"]

\* mutant: a failed commit is passed on without a rollback
afterCommitNoRollback(t, err) ==
  IF err = NoError
    THEN [t EXCEPT !.result = Resolved, !.pc = "finally"]
    ELSE [Fail(t, "commit", err, "finally") EXCEPT !.result = Rejected(err)]

\* endTransaction(Commit) settled, lines 93-94
afterCommit(t, err) ==
  IF err = NoError
    THEN [HasResolved(t, "endTransactionCommit")
            EXCEPT !.result = Resolved, !.pc = "finally"]
    ELSE Fail(t, "commit", err, "catch")

\* con.endTransaction(TxResolve.Rollback) was called in a catch, lines 94-96
\* and 104-106
afterRollbackCall(t, outcome, stored) ==
  CASE outcome = "throw" ->
         [Called(t, "endTransactionRollback")
            EXCEPT !.rollbackCalls = @ + 1,
                   !.result = Rejected(ProgrammingError), !.pc = "finally"]
    [] outcome = "reject" ->
         [Called(t, "endTransactionRollback")
            EXCEPT !.rollbackCalls = @ + 1, !.logged = stored,
                   !.result = Rejected(t.caught), !.pc = "finally"]
    [] OTHER -> [Called(t, "endTransactionRollback")
                   EXCEPT !.rollbackCalls = @ + 1, !.pc = "awaitRollback"]

\* mutant: the rollback error replaces the caught error
afterRollbackMasks(t, rollbackErr) ==
  [t EXCEPT !.logged = rollbackErr,
            !.result = IF rollbackErr # NoError THEN Rejected(rollbackErr)
                                                ELSE Rejected(t.caught),
            !.pc = "finally"]

\* mutant: the connection is released after a resolved chain only
afterRollbackNoRelease(t, rollbackErr) ==
  [t EXCEPT !.logged = rollbackErr, !.result = Rejected(t.caught),
            !.outcome = Rejected(t.caught), !.pc = "done"]

\* endTransaction(Rollback) settled, lines 96-102 and 106-112
afterRollback(t, rollbackErr) ==
  [t EXCEPT !.logged = rollbackErr, !.result = Rejected(t.caught),
            !.pc = "finally"]

\* the finally handler, lines 114-117
afterFinally(t, relOutcome, status) ==
  [Called(t, "release") EXCEPT !.releaseCalls = @ + 1, !.statusAtRelease = status,
            !.outcome = IF relOutcome = "throw" THEN Rejected(ProgrammingError)
                                                ELSE t.result,
            !.pc = "done"]

----------------------------------------------------------------------------
(* The run's steps *)

TxInit ==
  /\ released = FALSE
  /\ txStatus = 0
  /\ fatalError = NoError
  /\ rawQueue = <<>>
  /\ physical = "inPool"
  /\ lastEvent = Event("init", "ok", NoError, FALSE)
  /\ \E ws \in WriteSegments : tx = TxIdle(ws)
  /\ SingleIdle
  /\ isPoolOptions = TRUE
  /\ PoolIdle
  /\ RestIdle

\* execute(params): the pool hands a connection out or fails
TxExecute ==
  /\ tx.pc = "idle"
  /\ \E err \in {NoError, Err("connect", FALSE)} :
       /\ tx' = afterGetConnection(tx, err)
       /\ physical' = IF err = NoError THEN "checkedOut" ELSE physical
  /\ UNCHANGED <<released, txStatus, fatalError, rawQueue>>
  /\ UNCHANGED outsideTx

TxBegin ==
  /\ tx.pc = "acquired"
  /\ IF beginTransactionOutcome = "throw"
       THEN /\ release
            /\ tx' = [outerCatch(tx, ProgrammingError, releaseOutcome, txStatus)
                        EXCEPT !.readWrite = readWrite(tx.writeSegments)]
       ELSE /\ beginTransaction
            /\ tx' = [afterBeginCall(tx, beginTransactionOutcome, fatalError)
                        EXCEPT !.readWrite = readWrite(tx.writeSegments),
                               !.beginMode =
                                 TxModeOf(readWrite(tx.writeSegments))]
  /\ UNCHANGED outsideTx

TxReplyStart ==
  /\ tx.pc = "awaitBegin"
  /\ HeadIs("START")
  /\ \E err \in DriverReplies("START"), monitorThrows \in BOOLEAN :
       /\ beginCallback(err)
       /\ tx' = afterBegin(tx, err, monitorThrows)
  /\ UNCHANGED outsideTx

MonitorResolves ==
  /\ tx.pc = "awaitMonitor"
  /\ \E stepThrows \in BOOLEAN : tx' = afterMonitorResolved(tx, stepThrows)
  /\ UNCHANGED conVars
  /\ UNCHANGED outsideTx

MonitorRejects ==
  /\ tx.pc = "awaitMonitor"
  /\ tx' = afterMonitorRejected(tx)
  /\ UNCHANGED conVars
  /\ UNCHANGED outsideTx

\* the master step runs a statement on the connection and awaits it
StepExecuteStatement ==
  /\ tx.pc = "inStep"
  /\ tx.stepCalls < MaxStepCalls
  /\ executeStatement
  /\ tx' = [tx EXCEPT
       !.stepCalls = @ + 1,
       !.stepErr = CallError(executeStatementOutcome),
       !.pc = IF executeStatementOutcome = "pending" THEN "stepAwait"
                                                     ELSE "inStep"]
  /\ UNCHANGED outsideTx

TxReplyStatement ==
  /\ tx.pc = "stepAwait"
  /\ HeadIs("STMT")
  /\ \E err \in DriverReplies("STMT") :
       /\ statementCallback(err)
       /\ tx' = [tx EXCEPT !.stepErr = err, !.pc = "inStep"]
  /\ UNCHANGED outsideTx

\* the master step runs a query on the connection and awaits it
StepExecuteQuery ==
  /\ tx.pc = "inStep"
  /\ tx.stepCalls < MaxStepCalls
  /\ \E created \in BOOLEAN :
       /\ executeQuery(created)
       /\ tx' = [tx EXCEPT
            !.stepCalls = @ + 1,
            !.stepErr = CallError(executeQueryOutcome(created)),
            !.pc = IF executeQueryOutcome(created) = "pending" THEN "stepAwait"
                                                               ELSE "inStep"]
  /\ UNCHANGED outsideTx

\* a row of the step's query reaches the parser
TxQueryRow ==
  /\ tx.pc = "stepAwait"
  /\ HeadIs("QUERY")
  /\ ~Head(rawQueue).failed
  /\ Head(rawQueue).rows < MaxRows
  /\ \E thrown \in ParserThrows : queryResult(thrown)
  /\ UNCHANGED tx
  /\ UNCHANGED outsideTx

\* the driver reports an error for the step's query
TxQueryFail ==
  /\ tx.pc = "stepAwait"
  /\ HeadIs("QUERY")
  /\ ~Head(rawQueue).failed
  /\ \E err \in DriverReplies("QUERY") \ {NoError} : queryError(err)
  /\ UNCHANGED tx
  /\ UNCHANGED outsideTx

TxQueryEnd ==
  /\ tx.pc = "stepAwait"
  /\ HeadIs("QUERY")
  /\ \E thrown \in ParserThrows :
       /\ queryEnd(thrown)
       /\ tx' = [tx EXCEPT !.stepErr = queryEndError(thrown), !.pc = "inStep"]
  /\ UNCHANGED outsideTx

StepResolves ==
  /\ tx.pc = "inStep"
  /\ tx' = afterStepResolved(tx)
  /\ UNCHANGED conVars
  /\ UNCHANGED outsideTx

\* the step rejects with an error of its own or with the error of the
\* statement that failed
StepRejects ==
  /\ tx.pc = "inStep"
  /\ \E e \in {Err("step", FALSE), tx.stepErr} \ {NoError} :
       tx' = afterStepRejected(tx, e)
  /\ UNCHANGED conVars
  /\ UNCHANGED outsideTx

SaveResolves ==
  /\ tx.pc = "awaitSave"
  /\ tx' = afterSaveResolved(tx)
  /\ UNCHANGED conVars
  /\ UNCHANGED outsideTx

SaveRejects ==
  /\ tx.pc = "awaitSave"
  /\ tx' = afterSaveRejected(tx)
  /\ UNCHANGED conVars
  /\ UNCHANGED outsideTx

TxCommit ==
  /\ tx.pc = "commit"
  /\ endTransaction("Commit")
  /\ tx' = afterCommitCall(tx, endTransactionOutcome("Commit"), fatalError)
  /\ UNCHANGED outsideTx

TxReplyCommit ==
  /\ tx.pc = "awaitCommit"
  /\ HeadIs("COMMIT")
  /\ \E err \in DriverReplies("COMMIT") :
       /\ commitCallback(err)
       /\ tx' = afterCommit(tx, err)
  /\ UNCHANGED outsideTx

\* the catch handler of the chain, lines 94-103
TxCatch ==
  /\ tx.pc = "catch"
  /\ endTransaction("Rollback")
  /\ tx' = afterRollbackCall(tx, endTransactionOutcome("Rollback"), fatalError)
  /\ UNCHANGED outsideTx

\* the catch block around monitorTransaction, lines 104-113
TxInnerCatch ==
  /\ tx.pc = "innerCatch"
  /\ endTransaction("Rollback")
  /\ tx' = afterRollbackCall(tx, endTransactionOutcome("Rollback"), fatalError)
  /\ UNCHANGED outsideTx

TxReplyRollback ==
  /\ tx.pc = "awaitRollback"
  /\ HeadIs("ROLLBACK")
  /\ \E err \in DriverReplies("ROLLBACK") :
       /\ rollbackCallback(err)
       /\ tx' = afterRollback(tx, err)
  /\ UNCHANGED outsideTx

TxFinally ==
  /\ tx.pc = "finally"
  /\ release
  /\ tx' = afterFinally(tx, releaseOutcome, txStatus)
  /\ UNCHANGED outsideTx

TxNext ==
  \/ TxExecute
  \/ TxBegin
  \/ TxReplyStart
  \/ MonitorResolves
  \/ MonitorRejects
  \/ StepExecuteStatement
  \/ TxReplyStatement
  \/ StepExecuteQuery
  \/ TxQueryRow
  \/ TxQueryFail
  \/ TxQueryEnd
  \/ StepResolves
  \/ StepRejects
  \/ SaveResolves
  \/ SaveRejects
  \/ TxCommit
  \/ TxReplyCommit
  \/ TxCatch
  \/ TxInnerCatch
  \/ TxReplyRollback
  \/ TxFinally

SpecTx == TxInit /\ [][TxNext]_vars

----------------------------------------------------------------------------
(* Claims about Transaction.execute() *)

AfterBeginStages == {"monitor", "step", "save", "commit"}

\* C1: in a run of execute() that acquired a connection, release() is called
\* on it exactly once on every exit path, and never without a connection.
C1_ReleaseCalledExactlyOnce ==
  /\ tx.releaseCalls <= 1
  /\ ~tx.acquired => tx.releaseCalls = 0
  /\ (tx.pc = "done" /\ tx.acquired) => tx.releaseCalls = 1

\* a step failed, the rollback failed too, and the run ended
C1_Witness ==
  /\ tx.pc = "done"
  /\ tx.failedAt = "step"
  /\ tx.logged # NoError
  /\ tx.releaseCalls = 1

C3_OneRollbackNoCommitAfterFailure ==
  /\ tx.rollbackCalls <= 1
  /\ (tx.releaseCalls > 0 /\ tx.failedAt \in AfterBeginStages)
       => tx.rollbackCalls = 1
  /\ tx.failedAt \in {"monitor", "step", "save"} => tx.commitCalls = 0

\* the commit failed, the rollback was called, the connection released
C3_Witness ==
  /\ tx.pc = "done"
  /\ tx.failedAt = "commit"
  /\ tx.commitCalls = 1
  /\ tx.rollbackCalls = 1
  /\ tx.releaseCalls = 1

AfterBeginCalls ==
  {"monitorTransaction", "execute", "saveSegmentUpdates",
   "endTransactionCommit", "endTransactionRollback"}

CallsOf(t, names) == {i \in 1..Len(t.calls) : t.calls[i] \in names}

\* C21: when beginTransaction fails in execute(), neither monitorTransaction,
\* the master step, saveSegmentUpdates nor endTransaction is called in that
\* run, and the run ends with the connection released by one release() call
\* and execute() rejected with the beginTransaction error.
C21_FailedBeginOnlyReleases ==
  tx.failedAt = "begin"
    => /\ CallsOf(tx, AfterBeginCalls) = {}
       /\ tx.pc \in {"finally", "done"}
       /\ tx.pc = "done"
            => /\ tx.calls = <<"beginTransaction", "release">>
               /\ released
               /\ tx.outcome = Rejected(tx.cause)

\* START TRANSACTION was answered with an error and the run has ended
C21_Witness ==
  /\ tx.pc = "done"
  /\ tx.failedAt = "begin"
  /\ tx.cause # NoError
  /\ tx.outcome.state = "rejected"

\* C22: execute() begins a read-only transaction exactly when the master
\* step declares no write segments, a read/write one otherwise; a read-only
\* run never calls saveSegmentUpdates; a read/write run calls it exactly
\* once when the step succeeded, after the step and before
\* endTransaction(Commit), and never when the step failed.
C22_ModeAndSaveFollowWriteSegments ==
  LET saves   == CallsOf(tx, {"saveSegmentUpdates"})
      steps   == CallsOf(tx, {"execute"})
      commits == CallsOf(tx, {"endTransactionCommit"})
      noWrite == Len(tx.writeSegments.segments) = 0
  IN  /\ tx.beginMode # "none"
           => tx.beginMode = IF noWrite THEN "ReadOnly" ELSE "ReadWrite"
      /\ tx.beginMode = "ReadOnly" => saves = {}
      /\ Cardinality(saves) <= 1
      /\ \A i \in saves :
           /\ \E j \in steps : j < i
           /\ \A k \in commits : i < k
      /\ tx.failedAt \in {"begin", "monitor", "step"} => saves = {}
      /\ (tx.beginMode = "ReadWrite" /\ (commits # {} \/ tx.failedAt = "save"))
           => Cardinality(saves) = 1
      /\ (tx.beginMode = "ReadWrite" /\ tx.pc = "done" /\ tx.failedAt = "none")
           => Cardinality(saves) = 1

\* a read/write run went through step, save and commit and resolved
C22_Witness ==
  /\ tx.pc = "done"
  /\ tx.beginMode = "ReadWrite"
  /\ tx.outcome = Resolved
  /\ tx.calls = <<"beginTransaction", "monitorTransaction", "execute",
                  "saveSegmentUpdates", "endTransactionCommit", "release">>

\* The segment locks of the run's monitor.  The repository declares the
\* monitor as an interface: monitorTransaction locks the segments before
\* its promise resolves and "all locks are released upon completion of the
\* transaction".  The locks may exist from the monitorTransaction call on,
\* and last while the transaction on the connection is not over.
monitorLocksHeld ==
  /\ CallsOf(tx, {"monitorTransaction"}) # {}
  /\ txStatus # 0

----------------------------------------------------------------------------
(* MySQLSingleConnectionProvider.  Application code runs in blocks, each   *)
(* to completion; the promise jobs queued meanwhile run after the block,   *)
(* first queued first.  Unblocking a Blocker queues the callbacks of its   *)
(* waiters in the order they started to wait.                              *)

WakeJob(c) == [job |-> "wake", caller |-> c]

DeliverJob(c) == [job |-> "deliver", caller |-> c]

\* the fatal error a released Connection may carry: none, the error of a
\* failed ROLLBACK (not flagged fatal), a fatal driver error
ReleasedWith == {NoError, Err("ROLLBACK", FALSE), Err("STMT", TRUE)}

Without(seq, c) == SelectSeq(seq, LAMBDA x : x # c)

InSeq(seq, c) == \E i \in 1..Len(seq) : seq[i] = c

\* mutant: the checked-out flag is not looked at
getConnectionOutcomeNoFlag ==
  IF shutDown THEN "shut"
  ELSE IF provFatalError # NoError THEN "fatal"
  ELSE "issued"

getConnectionOutcome ==
  IF shutDown THEN "shut"
  ELSE IF provFatalError # NoError THEN "fatal"
  ELSE IF connectionAllocated THEN "blocked"
  ELSE "issued"

\* the error getConnection() rejects with, NoError when it does not reject
getConnectionError ==
  CASE getConnectionOutcome = "shut" -> ShutDownError
    [] getConnectionOutcome = "fatal" -> provFatalError
    [] OTHER -> NoError

\* getConnection() for caller c, called by c or by the callback that waited
\* on a Blocker; jobs is the job queue at the time of the call
getConnection(c, jobs) ==
  /\ CASE getConnectionOutcome = "blocked" ->
            /\ connectionBlocker' = Append(connectionBlocker, c)
            /\ caller' = [caller EXCEPT ![c] = "waiting"]
            /\ pendingOrder' = IF InSeq(pendingOrder, c) THEN pendingOrder
                                                         ELSE Append(pendingOrder, c)
            /\ microtasks' = jobs
            /\ UNCHANGED <<connectionAllocated, holders>>
       [] getConnectionOutcome = "issued" ->
            /\ connectionAllocated' = TRUE
            /\ holders' = holders \cup {c}
            /\ caller' = [caller EXCEPT ![c] = "granted"]
            /\ pendingOrder' = Without(pendingOrder, c)
            /\ microtasks' = Append(jobs, DeliverJob(c))
            /\ UNCHANGED connectionBlocker
       [] OTHER ->
            /\ caller' = [caller EXCEPT ![c] = "rejected"]
            /\ pendingOrder' = Without(pendingOrder, c)
            /\ microtasks' = jobs
            /\ UNCHANGED <<connectionAllocated, connectionBlocker, holders>>
  /\ provEvent' = ProvEvent("getConnection", c, getConnectionOutcome,
                            getConnectionError)
  /\ UNCHANGED <<shutDown, provFatalError, rawState, rawEndCalls,
                 rawDestroyCalls>>

\* the jobs blocker.unblock() queues
Unblocked == [i \in 1..Len(connectionBlocker) |-> WakeJob(connectionBlocker[i])]

\* mutant: the releaser clears the flag and leaves the blocker as it is
singleReleaserKeepsBlocker(c, err) ==
  /\ IF err # NoError /\ err.fatal
       THEN /\ provFatalError' = err
            /\ rawState' = "destroyed"
            /\ rawDestroyCalls' = rawDestroyCalls + 1
       ELSE UNCHANGED <<provFatalError, rawState, rawDestroyCalls>>
  /\ connectionAllocated' = FALSE
  /\ holders' = holders \ {c}
  /\ provEvent' = ProvEvent("release", c, "ok", err)
  /\ UNCHANGED <<shutDown, rawEndCalls, connectionBlocker, microtasks>>

\* the releaser the provider gives to the Connection of caller c
singleReleaser(c, err) ==
  /\ IF err # NoError /\ err.fatal
       THEN /\ provFatalError' = err
            /\ rawState' = "destroyed"
            /\ rawDestroyCalls' = rawDestroyCalls + 1
       ELSE UNCHANGED <<provFatalError, rawState, rawDestroyCalls>>
  /\ connectionAllocated' = FALSE
  /\ connectionBlocker' = NoBlocker
  /\ microtasks' = microtasks \o Unblocked
  /\ holders' = holders \ {c}
  /\ provEvent' = ProvEvent("release", c, "ok", err)
  /\ UNCHANGED <<shutDown, rawEndCalls>>

\* mutant: shutdown() may be called again
shutdownOutcomeNotOneShot ==
  IF provFatalError = NoError THEN "end" ELSE "noop"

\* what shutdown() does in the current state: "throw" a programming error,
\* "end" the physical connection, or nothing
shutdownOutcome ==
  IF shutDown THEN "throw"
  ELSE IF provFatalError = NoError THEN "end"
  ELSE "noop"

shutdown ==
  /\ IF shutdownOutcome = "throw"
       THEN UNCHANGED <<shutDown, rawState, rawEndCalls>>
       ELSE /\ shutDown' = TRUE
            /\ IF shutdownOutcome = "end"
                 THEN rawState' = "ended" /\ rawEndCalls' = rawEndCalls + 1
                 ELSE UNCHANGED <<rawState, rawEndCalls>>
  /\ provEvent' = ProvEvent("shutdown", 0, shutdownOutcome,
                            IF shutdownOutcome = "throw" THEN ProgrammingError
                                                         ELSE NoError)
  /\ UNCHANGED <<provFatalError, connectionAllocated, connectionBlocker,
                 microtasks, holders, rawDestroyCalls>>

SingleInit ==
  /\ released = FALSE
  /\ txStatus = 0
  /\ fatalError = NoError
  /\ rawQueue = <<>>
  /\ physical = "inPool"
  /\ lastEvent = Event("init", "ok", NoError, FALSE)
  /\ tx = TxIdle(Undeclared)
  /\ SingleIdle
  /\ isPoolOptions = FALSE
  /\ PoolIdle
  /\ RestIdle

\* a timer or I/O callback of the application starts to run
BeginBlock ==
  /\ ~inBlock
  /\ microtasks = <<>>
  /\ inBlock' = TRUE
  /\ UNCHANGED <<shutDown, provFatalError, connectionAllocated,
                 connectionBlocker, rawState, microtasks, caller, holders,
                 pendingOrder, provEvent, rawEndCalls, rawDestroyCalls>>
  /\ UNCHANGED outsideSingle

\* the running application code returns
EndBlock ==
  /\ inBlock
  /\ inBlock' = FALSE
  /\ UNCHANGED <<shutDown, provFatalError, connectionAllocated,
                 connectionBlocker, rawState, microtasks, caller, holders,
                 pendingOrder, provEvent, rawEndCalls, rawDestroyCalls>>
  /\ UNCHANGED outsideSingle

\* application code calls provider.getConnection()
CallGetConnection(c) ==
  /\ inBlock
  /\ caller[c] \in {"idle", "rejected"}
  /\ getConnection(c, microtasks)
  /\ UNCHANGED inBlock
  /\ UNCHANGED outsideSingle

\* the callback of a waiter runs: () => this.getConnection()
Wake(c) ==
  /\ ~inBlock
  /\ microtasks # <<>>
  /\ Head(microtasks) = WakeJob(c)
  /\ getConnection(c, Tail(microtasks))
  /\ UNCHANGED inBlock
  /\ UNCHANGED outsideSingle

\* the promise of getConnection() resolves at the caller, whose code runs
Deliver(c) ==
  /\ ~inBlock
  /\ microtasks # <<>>
  /\ Head(microtasks) = DeliverJob(c)
  /\ microtasks' = Tail(microtasks)
  /\ caller' = [caller EXCEPT ![c] = "holding"]
  /\ inBlock' = TRUE
  /\ UNCHANGED <<shutDown, provFatalError, connectionAllocated,
                 connectionBlocker, rawState, holders, pendingOrder, provEvent,
                 rawEndCalls, rawDestroyCalls>>
  /\ UNCHANGED outsideSingle

\* application code releases the Connection it holds
Release(c) ==
  /\ inBlock
  /\ caller[c] = "holding"
  /\ \E err \in ReleasedWith : singleReleaser(c, err)
  /\ caller' = [caller EXCEPT ![c] = "idle"]
  /\ UNCHANGED <<inBlock, pendingOrder>>
  /\ UNCHANGED outsideSingle

\* application code calls provider.shutdown()
Shutdown ==
  /\ inBlock
  /\ shutdown
  /\ UNCHANGED <<inBlock, caller, pendingOrder>>
  /\ UNCHANGED outsideSingle

SingleNext ==
  \/ BeginBlock
  \/ EndBlock
  \/ \E c \in Callers : CallGetConnection(c)
  \/ \E c \in Callers : Wake(c)
  \/ \E c \in Callers : Deliver(c)
  \/ \E c \in Callers : Release(c)
  \/ Shutdown

SpecSingle == SingleInit /\ [][SingleNext]_vars

\* the job queue is always run, running application code always returns,
\* and a Connection that is held is released again
SpecSingleFair ==
  /\ SpecSingle
  /\ WF_vars(BeginBlock)
  /\ WF_vars(EndBlock)
  /\ \A c \in Callers : WF_vars(Wake(c)) /\ WF_vars(Deliver(c))
  /\ \A c \in Callers : SF_vars(Release(c))

----------------------------------------------------------------------------
(* Claims about the single connection provider *)

\* C5: a Connection is handed out only to the caller whose unsettled
\* getConnection() call arrived first: never to a caller while an earlier
\* call is still waiting.
C5_HandedOutInArrivalOrder ==
  [][\A c \in holders' \ holders :
        pendingOrder = <<>> \/ Head(pendingOrder) = c]_vars

\* C6: at most one unreleased Connection issued by the provider exists.
C6_OneUnreleasedConnection ==
  /\ Cardinality(holders) <= 1
  /\ holders # {} => connectionAllocated

\* a caller holds the connection while the two others wait for it
C6_Witness ==
  /\ Cardinality(holders) = 1
  /\ Cardinality({c \in Callers : caller[c] = "waiting"}) = 2
  /\ \E c \in Callers : caller[c] = "holding"

\* C7: while the provider is neither shut down nor fatally failed, every
\* waiting getConnection() call is eventually given the Connection.
C7_NoStarvation ==
  ([]~shutDown /\ [](provFatalError = NoError))
    => \A c \in Callers :
         (caller[c] = "waiting") ~> (caller[c] \in {"granted", "holding"})

\* C18: when a Connection with a recorded fatal error is released, the
\* provider records the error, destroys the physical connection and clears
\* the checked-out flag; from then on no getConnection() call waits or is
\* given a Connection, each rejects (with that error, while the provider is
\* not shut down), and a destroyed connection is never handed out again.
C18_FatalReleasePoisonsProvider ==
  [][/\ (provEvent'.op = "release" /\ holders' # holders
           /\ provEvent'.err # NoError)
        => (/\ provFatalError' = provEvent'.err
            /\ rawState' = "destroyed"
            /\ ~connectionAllocated')
     /\ (provFatalError # NoError /\ provEvent'.op = "getConnection")
        => (/\ provEvent'.res \in {"fatal", "shut"}
            /\ ~shutDown => provEvent'.err = provFatalError)
     /\ provFatalError # NoError => provFatalError' = provFatalError
     /\ rawState = "destroyed" => holders' \subseteq holders]_vars

----------------------------------------------------------------------------
(* A connection taken from the pool provider and driven by any caller.     *)

ConnInit ==
  /\ released = FALSE
  /\ txStatus = 0
  /\ fatalError = NoError
  /\ rawQueue = <<>>
  /\ physical = "checkedOut"
  /\ lastEvent = Event("init", "ok", NoError, FALSE)
  /\ tx = TxIdle(Undeclared)
  /\ SingleIdle
  /\ isPoolOptions = TRUE
  /\ PoolIdle
  /\ RestIdle

CanSend == Len(rawQueue) < MaxOutstanding

CallRelease ==
  /\ UNCHANGED outsideConn
  /\ release
  /\ lastEvent' = Event("release", releaseOutcome,
                        CallError(releaseOutcome), FALSE)

CallBeginTransaction ==
  /\ UNCHANGED outsideConn
  /\ beginTransactionOutcome = "pending" => CanSend
  /\ beginTransaction
  /\ lastEvent' = Event("beginTransaction", beginTransactionOutcome,
                        CallError(beginTransactionOutcome),
                        Len(rawQueue') > Len(rawQueue))

CallEndTransaction ==
  /\ UNCHANGED outsideConn
  /\ \E res \in {"Commit", "Rollback"} :
       /\ endTransactionOutcome(res) = "pending" => CanSend
       /\ endTransaction(res)
       /\ lastEvent' = Event(IF res = "Commit" THEN "endTransactionCommit"
                                               ELSE "endTransactionRollback",
                             endTransactionOutcome(res),
                             CallError(endTransactionOutcome(res)),
                             Len(rawQueue') > Len(rawQueue))

CallExecuteStatement ==
  /\ UNCHANGED outsideConn
  /\ executeStatementOutcome = "pending" => CanSend
  /\ executeStatement
  /\ lastEvent' = Event("executeStatement", executeStatementOutcome,
                        CallError(executeStatementOutcome),
                        Len(rawQueue') > Len(rawQueue))

CallExecuteQuery ==
  /\ UNCHANGED outsideConn
  /\ \E created \in BOOLEAN :
       /\ executeQueryOutcome(created) = "pending" => CanSend
       /\ executeQuery(created)
       /\ lastEvent' = Event("executeQuery", executeQueryOutcome(created),
                             CallError(executeQueryOutcome(created)),
                             Len(rawQueue') > Len(rawQueue))

Settled(err) == IF err = NoError THEN "resolve" ELSE "reject"

ReplyStart ==
  /\ UNCHANGED outsideConn
  /\ HeadIs("START")
  /\ \E err \in DriverReplies("START") :
       /\ beginCallback(err)
       /\ lastEvent' = Event("beginCallback", Settled(err), err, FALSE)

ReplyCommit ==
  /\ UNCHANGED outsideConn
  /\ HeadIs("COMMIT")
  /\ \E err \in DriverReplies("COMMIT") :
       /\ commitCallback(err)
       /\ lastEvent' = Event("commitCallback", Settled(err), err, FALSE)

ReplyRollback ==
  /\ UNCHANGED outsideConn
  /\ HeadIs("ROLLBACK")
  /\ \E err \in DriverReplies("ROLLBACK") :
       /\ rollbackCallback(err)
       /\ lastEvent' = Event("rollbackCallback", Settled(err), err, FALSE)

ReplyStatement ==
  /\ UNCHANGED outsideConn
  /\ HeadIs("STMT")
  /\ \E err \in DriverReplies("STMT") :
       /\ statementCallback(err)
       /\ lastEvent' = Event("statementCallback", Settled(err), err, FALSE)

QueryRow ==
  /\ UNCHANGED outsideConn
  /\ HeadIs("QUERY")
  /\ ~Head(rawQueue).failed
  /\ Head(rawQueue).rows < MaxRows
  /\ \E thrown \in ParserThrows :
       /\ queryResult(thrown)
       /\ lastEvent' =
            IF parserCalled
              THEN ParserEvent("queryResult", "ok", NoError, "addRow", thrown)
              ELSE Event("queryResult", "ok", NoError, FALSE)

QueryFail ==
  /\ UNCHANGED outsideConn
  /\ HeadIs("QUERY")
  /\ ~Head(rawQueue).failed
  /\ \E err \in DriverReplies("QUERY") \ {NoError} :
       /\ queryError(err)
       /\ lastEvent' = Event("queryError", "ok", err, FALSE)

QueryEnd ==
  /\ UNCHANGED outsideConn
  /\ HeadIs("QUERY")
  /\ \E thrown \in ParserThrows :
       /\ queryEnd(thrown)
       /\ lastEvent' =
            IF parserCalled
              THEN ParserEvent("queryEnd", Settled(queryEndError(thrown)),
                               queryEndError(thrown), "getResult", thrown)
              ELSE Event("queryEnd", Settled(queryEndError(thrown)),
                         queryEndError(thrown), FALSE)

ConnNext ==
  \/ CallRelease
  \/ CallBeginTransaction
  \/ CallEndTransaction
  \/ CallExecuteStatement
  \/ CallExecuteQuery
  \/ ReplyStart
  \/ ReplyCommit
  \/ ReplyRollback
  \/ ReplyStatement
  \/ QueryRow
  \/ QueryFail
  \/ QueryEnd

SpecConn == ConnInit /\ [][ConnNext]_vars

----------------------------------------------------------------------------
(* Claims about the connection *)

ConnCalls == {"beginTransaction", "executeStatement", "executeQuery"}

\* C8: every beginTransaction, executeStatement and executeQuery call made on
\* an unreleased connection that has a fatal error recorded rejects with the
\* stored error and hands nothing to the driver.
C8_FatalRejectsEveryCall ==
  [][(fatalError # NoError /\ ~released /\ lastEvent'.op \in ConnCalls)
       => (/\ lastEvent'.res = "reject"
           /\ lastEvent'.err = fatalError
           /\ ~lastEvent'.sent)]_vars

\* C9: when a connection is released to the pool provider, the physical
\* connection is destroyed if a fatal error is recorded on the connection
\* and returned to the pool if none is.
C9_ReleaseDestroysIffFatal ==
  (lastEvent.op = "release" /\ lastEvent.res = "ok")
    => (physical = "destroyed" <=> fatalError # NoError)

\* The state machine of section 4.1 of the specification: the status after
\* event e in status s.
Machine41(s, e) ==
  CASE e.op = "beginTransaction" /\ e.res = "pending" -> 1
    [] e.op = "beginCallback" /\ e.res = "resolve" -> 4
    [] e.op = "beginCallback" /\ e.res = "reject" -> 0
    [] e.op = "endTransactionCommit" /\ e.res = "pending" -> 2
    [] e.op = "commitCallback" /\ e.res = "resolve" -> 0
    [] e.op = "commitCallback" /\ e.res = "reject" -> 3
    [] e.op = "endTransactionRollback" /\ e.res = "pending" -> 3
    [] e.op = "rollbackCallback" -> 0
    [] e.op \in {"statementCallback", "queryEnd"} /\ e.err.fatal -> 0
    [] e.op = "executeQuery" /\ e.res = "nocreate" -> 0
    [] OTHER -> s

\* C10: after each call and each driver reply the transaction status is the
\* state the machine of section 4.1 is in.
C10_StatusFollowsMachine41 ==
  [][txStatus' = Machine41(txStatus, lastEvent')]_vars

\* the calls that end a transaction
EndCalls == {"endTransactionCommit", "endTransactionRollback"}

\* the call recorded in e goes against the machine of section 4.1 in status s
Violates41(e, s) ==
  \/ e.op = "beginTransaction" /\ s # 0
  \/ e.op = "endTransactionCommit" /\ s < 4
  \/ e.op = "endTransactionRollback" /\ s < 3

C12_FailedCommitNeedsRollback ==
  (lastEvent.op = "commitCallback" /\ lastEvent.res = "reject")
    => (txStatus = 3 /\ fatalError # NoError /\ fatalError.fatal)

\* ROLLBACK is outstanding at the driver
RollbackOutstanding == \E i \in 1..Len(rawQueue) : rawQueue[i].cmd = "ROLLBACK"

\* C13: endTransaction(Rollback) on a usable connection is accepted exactly
\* when the status is 3 or 4, throws a programming error below 3, and the
\* status is 3 for as long as ROLLBACK is outstanding.
C13_RollbackEntersStatus3 ==
  [][/\ (lastEvent'.op = "endTransactionRollback" /\ ~released
           /\ fatalError = NoError)
        => (/\ lastEvent'.res = (IF txStatus >= 3 THEN "pending" ELSE "throw")
            /\ lastEvent'.res = "pending" => txStatus' = 3)
     /\ RollbackOutstanding' => txStatus' = 3]_vars

\* C14: once ROLLBACK is answered the status is 0 and an unreleased
\* connection may be released; a failure is stored as the sticky fatal
\* error and the promise is rejected with it.
C14_RollbackAnsweredMeansIdle ==
  lastEvent.op = "rollbackCallback"
    => (/\ txStatus = 0
        /\ ~released => releaseOutcome = "ok"
        /\ lastEvent.err # NoError
             => (fatalError = lastEvent.err /\ lastEvent.res = "reject"))

\* ROLLBACK failed without the driver flagging the error fatal
C14_Witness ==
  /\ lastEvent.op = "rollbackCallback"
  /\ lastEvent.err = Err("ROLLBACK", FALSE)
  /\ ~released

\* the calls that run SQL
ExecuteCalls == {"executeStatement", "executeQuery"}

\* C15: executeStatement and executeQuery throw a programming error and send
\* nothing whenever the status is 1, 2 or 3.
C15_NoExecuteMidTransition ==
  [][(lastEvent'.op \in ExecuteCalls /\ txStatus \in 1..3)
       => (/\ lastEvent'.res = "throw"
           /\ lastEvent'.err = ProgrammingError
           /\ ~lastEvent'.sent)]_vars

\* C16: release() of an unreleased connection throws a programming error
\* and changes nothing when the status is not 0; in status 0 it releases,
\* with or without a fatal error recorded.
C16_ReleaseOnlyWhenIdle ==
  [][(lastEvent'.op = "release" /\ ~released)
       => IF txStatus # 0
            THEN /\ lastEvent'.res = "throw"
                 /\ lastEvent'.err = ProgrammingError
                 /\ UNCHANGED <<released, txStatus, fatalError, physical>>
            ELSE /\ lastEvent'.res = "ok"
                 /\ released'
                 /\ physical' \in {"inPool", "destroyed"}
                 /\ UNCHANGED <<txStatus, fatalError>>]_vars

\* release() was refused in an open transaction: the releaser has not run
C16_Witness ==
  /\ lastEvent.op = "release"
  /\ lastEvent.res = "throw"
  /\ txStatus = 4
  /\ ~released
  /\ physical = "checkedOut"

\* every call of the Connection interface
AllCalls == {"release", "beginTransaction"} \cup EndCalls \cup ExecuteCalls

\* C17: on a released connection every call throws a programming error and
\* sends nothing, and the releaser is not called again.
C17_ReleasedIsTerminal ==
  [][released
       => (/\ released'
           /\ physical' = physical
           /\ lastEvent'.op \in AllCalls
                => (/\ lastEvent'.res = "throw"
                    /\ lastEvent'.err = ProgrammingError
                    /\ ~lastEvent'.sent))]_vars

\* release() was called a second time, and threw
C17_Witness ==
  /\ released
  /\ lastEvent.op = "release"
  /\ lastEvent.res = "throw"

----------------------------------------------------------------------------
(* MySQLPoolConnectionProvider.  The underlying pool is an external        *)
(* collaborator: it answers each getConnection request later, with a       *)
(* connection or with an error, and the provider cannot withdraw a request *)
(* it has made.                                                            *)

\* the callers holding an unreleased Connection of the pool provider
PoolHolders == {c \in Callers : poolCaller[c] = "holding"}

poolGetConnectionOutcome == IF poolShutDown THEN "shut" ELSE "requested"

\* getConnection() for caller c
poolGetConnection(c) ==
  /\ poolCaller' = [poolCaller EXCEPT ![c] =
       IF poolGetConnectionOutcome = "shut" THEN "rejected" ELSE "requested"]
  /\ poolEvent' = ProvEvent("getConnection", c, poolGetConnectionOutcome,
                            IF poolGetConnectionOutcome = "shut"
                              THEN ShutDownError ELSE NoError)
  /\ UNCHANGED <<poolShutDown, rawPoolEndCalls>>

\* the callback given to the pool's getConnection, for the request of c
poolGetConnectionCallback(c, err) ==
  /\ poolCaller' = [poolCaller EXCEPT ![c] =
       IF err # NoError THEN "rejected" ELSE "holding"]
  /\ poolEvent' = ProvEvent("callback", c,
                            IF err # NoError THEN "reject" ELSE "issued", err)
  /\ UNCHANGED <<poolShutDown, rawPoolEndCalls>>

poolShutdownOutcome == IF poolShutDown THEN "throw" ELSE "end"

poolShutdown ==
  /\ IF poolShutdownOutcome = "throw"
       THEN UNCHANGED <<poolShutDown, rawPoolEndCalls>>
       ELSE /\ poolShutDown' = TRUE
            /\ rawPoolEndCalls' = rawPoolEndCalls + 1
  /\ poolEvent' = ProvEvent("shutdown", 0, poolShutdownOutcome,
                            IF poolShutdownOutcome = "throw"
                              THEN ProgrammingError ELSE NoError)
  /\ UNCHANGED poolCaller

\* a caller calls provider.getConnection()
PoolCallGetConnection(c) ==
  /\ poolCaller[c] \in {"idle", "rejected"}
  /\ poolGetConnection(c)
  /\ UNCHANGED <<isPoolOptions, physical>>
  /\ UNCHANGED outsidePool

\* the pool answers the request of c with a connection
PoolGrant(c) ==
  /\ poolCaller[c] = "requested"
  /\ Cardinality(PoolHolders) < ConnectionLimit
  /\ poolGetConnectionCallback(c, NoError)
  /\ physical' = "checkedOut"
  /\ UNCHANGED isPoolOptions
  /\ UNCHANGED outsidePool

\* the pool answers the request of c with an error
PoolFail(c) ==
  /\ poolCaller[c] = "requested"
  /\ poolGetConnectionCallback(c, Err("pool", FALSE))
  /\ UNCHANGED <<isPoolOptions, physical>>
  /\ UNCHANGED outsidePool

\* a caller releases the Connection it holds
PoolRelease(c) ==
  /\ poolCaller[c] = "holding"
  /\ \E err \in ReleasedWith :
       /\ poolReleaser(err)
       /\ poolEvent' = ProvEvent("release", c, "ok", err)
  /\ poolCaller' = [poolCaller EXCEPT ![c] = "idle"]
  /\ UNCHANGED <<isPoolOptions, poolShutDown, rawPoolEndCalls>>
  /\ UNCHANGED outsidePool

\* a caller calls provider.shutdown()
PoolShutdown ==
  /\ poolShutdown
  /\ UNCHANGED <<isPoolOptions, physical>>
  /\ UNCHANGED outsidePool

----------------------------------------------------------------------------
(* The provider createMySQLDatabaseConnectionProvider makes: a pool        *)
(* provider or a single connection provider, by the options.               *)

ProviderInit ==
  /\ released = FALSE
  /\ txStatus = 0
  /\ fatalError = NoError
  /\ rawQueue = <<>>
  /\ physical = "inPool"
  /\ lastEvent = Event("init", "ok", NoError, FALSE)
  /\ tx = TxIdle(Undeclared)
  /\ SingleIdle
  /\ isPoolOptions \in BOOLEAN
  /\ PoolIdle
  /\ RestIdle

ProviderNext ==
  \/ ~isPoolOptions /\ BeginBlock
  \/ ~isPoolOptions /\ EndBlock
  \/ ~isPoolOptions /\ \E c \in Callers : CallGetConnection(c)
  \/ ~isPoolOptions /\ \E c \in Callers : Wake(c)
  \/ ~isPoolOptions /\ \E c \in Callers : Deliver(c)
  \/ ~isPoolOptions /\ \E c \in Callers : Release(c)
  \/ ~isPoolOptions /\ Shutdown
  \/ isPoolOptions /\ \E c \in Callers : PoolCallGetConnection(c)
  \/ isPoolOptions /\ \E c \in Callers : PoolGrant(c)
  \/ isPoolOptions /\ \E c \in Callers : PoolFail(c)
  \/ isPoolOptions /\ \E c \in Callers : PoolRelease(c)
  \/ isPoolOptions /\ PoolShutdown

SpecProvider == ProviderInit /\ [][ProviderNext]_vars

----------------------------------------------------------------------------
(* Claims about the providers *)

\* C19: once shutdown() has been called a provider of either kind issues no
\* new Connection: a getConnection() call made afterwards rejects, a request
\* that was pending at the time is not given a Connection, and a Connection
\* issued before is still released.
C19_NothingIssuedAfterShutdown ==
  [][/\ shutDown
        => (/\ holders' \subseteq holders
            /\ provEvent'.op = "getConnection" => provEvent'.res = "shut"
            /\ holders' # holders => ~connectionAllocated')
     /\ poolShutDown
        => (/\ PoolHolders' \subseteq PoolHolders
            /\ poolEvent'.op = "getConnection" => poolEvent'.res = "shut"
            /\ (PoolHolders' # PoolHolders /\ PoolHolders' \subseteq PoolHolders)
                 => physical' \in {"inPool", "destroyed"})]_vars

\* C20: the first shutdown() sets the shutdown flag and closes the pool, or
\* the physical connection unless a fatal error has destroyed it; a later
\* shutdown() throws a programming error, and nothing is ever closed twice.
C20_ShutdownIsOneShot ==
  [][/\ (provEvent'.op = "shutdown" /\ ~shutDown)
        => (/\ shutDown'
            /\ IF rawState = "destroyed"
                 THEN provEvent'.res = "noop" /\ UNCHANGED <<rawState, rawEndCalls>>
                 ELSE /\ provEvent'.res = "end"
                      /\ rawState' = "ended"
                      /\ rawEndCalls' = 1)
     /\ (provEvent'.op = "shutdown" /\ provEvent' # provEvent /\ shutDown)
        => provEvent'.res = "throw" /\ provEvent'.err = ProgrammingError
     /\ shutDown => shutDown' /\ rawEndCalls' = rawEndCalls
     /\ (poolEvent'.op = "shutdown" /\ ~poolShutDown)
        => (poolShutDown' /\ poolEvent'.res = "end" /\ rawPoolEndCalls' = 1)
     /\ (poolEvent'.op = "shutdown" /\ poolEvent' # poolEvent /\ poolShutDown)
        => poolEvent'.res = "throw" /\ poolEvent'.err = ProgrammingError
     /\ poolShutDown => poolShutDown' /\ rawPoolEndCalls' = rawPoolEndCalls]_vars

\* shutdown() of the single connection provider was called twice, the first
\* time after a fatal error had destroyed the connection
C20_Witness ==
  /\ ~isPoolOptions
  /\ provEvent.op = "shutdown"
  /\ provEvent.res = "throw"
  /\ rawState = "destroyed"
  /\ rawEndCalls = 0

----------------------------------------------------------------------------
(* The database monitor.  The repository declares it (DatabaseMonitor and  *)
(* TransactionMonitor); the lock manager below follows that declaration    *)
(* and the specification: monitorTransaction takes a shared lock on every  *)
(* read segment and an exclusive lock on every write segment before its    *)
(* promise resolves, and the locks are released when the transaction       *)
(* completes.                                                              *)

\* a lock of held and a lock of want exclude each other
Conflicts(held, want) ==
  \/ held.write \cap (want.read \cup want.write) # {}
  \/ want.write \cap (held.read \cup held.write) # {}

\* mutant: every request is granted at once
canLockAlways(t) == TRUE

\* the locks transaction t asks for can all be taken
canLock(t) ==
  \A o \in Transactions \ {t} :
    monitors[o].state = "held" => ~Conflicts(monitors[o], monitors[t])

MonitorInit ==
  /\ released = FALSE
  /\ txStatus = 0
  /\ fatalError = NoError
  /\ rawQueue = <<>>
  /\ physical = "inPool"
  /\ lastEvent = Event("init", "ok", NoError, FALSE)
  /\ tx = TxIdle(Undeclared)
  /\ SingleIdle
  /\ isPoolOptions = TRUE
  /\ PoolIdle
  /\ RestIdle

outsideMonitor ==
  <<conVars, lastEvent, tx, spVars, ppVars, creation, appVars, runs>>

\* monitorTransaction(con, readSegments, writeSegments) is called
MonCall(t) ==
  /\ monitors[t].state = "none"
  /\ \E readSegments \in SUBSET Segments, writeSegments \in SUBSET Segments :
       monitors' = [monitors EXCEPT ![t] =
         [state |-> "waiting", read |-> readSegments \ writeSegments,
          write |-> writeSegments]]
  /\ UNCHANGED outsideMonitor

\* the promise of monitorTransaction resolves: the locks are held
MonResolve(t) ==
  /\ monitors[t].state = "waiting"
  /\ canLock(t)
  /\ monitors' = [monitors EXCEPT ![t].state = "held"]
  /\ UNCHANGED outsideMonitor

\* the promise of monitorTransaction rejects: no monitor is allocated
MonReject(t) ==
  /\ monitors[t].state = "waiting"
  /\ monitors' = [monitors EXCEPT ![t] = NoMonitor]
  /\ UNCHANGED outsideMonitor

\* the transaction completes: all its locks are released
MonComplete(t) ==
  /\ monitors[t].state = "held"
  /\ monitors' = [monitors EXCEPT ![t] = NoMonitor]
  /\ UNCHANGED outsideMonitor

MonitorNext ==
  \/ \E t \in Transactions : MonCall(t)
  \/ \E t \in Transactions : MonResolve(t)
  \/ \E t \in Transactions : MonReject(t)
  \/ \E t \in Transactions : MonComplete(t)

SpecMonitor == MonitorInit /\ [][MonitorNext]_vars

\* C24: while transaction A holds an exclusive lock on segment S, the
\* monitorTransaction call of another transaction that asks for a shared or
\* an exclusive lock on S does not resolve; it can resolve once no monitor
\* holds a conflicting lock, so shared locks on S are held by several
\* transactions at once.
C24_MonitorMutualExclusion ==
  /\ \A a \in Transactions : \A b \in Transactions \ {a} :
       (monitors[a].state = "held" /\ monitors[b].state = "held")
         => monitors[a].write \cap (monitors[b].read \cup monitors[b].write) = {}
  /\ \A b \in Transactions :
       monitors[b].state = "waiting"
         => (ENABLED MonResolve(b)
               <=> \A a \in Transactions \ {b} :
                     monitors[a].state = "held"
                       => ~Conflicts(monitors[a], monitors[b]))

\* one transaction holds the exclusive lock on s1, the other waits for a
\* shared lock on it
C24_Witness ==
  \E a \in Transactions : \E b \in Transactions \ {a} :
    /\ monitors[a].state = "held"
    /\ "s1" \in monitors[a].write
    /\ monitors[b].state = "waiting"
    /\ "s1" \in monitors[b].read

----------------------------------------------------------------------------
(* createMySQLDatabaseConnectionProvider(app, options): provider.ts.       *)
(* A server version is the sequence of its characters.                     *)

Digit == {"0", "1", "2", "3", "4", "5", "6", "7", "8", "9"}

Dot == <<".">>

MariaDBSuffix == <<"-", "M", "a", "r", "i", "a", "D", "B">>

\* the server versions a handshake packet may carry
ServerVersions ==
  { prefix \o major \o Dot \o minor \o Dot \o patch \o suffix :
      prefix \in {<<>>, <<"5", ".", "5", ".", "5", "-">>},
      major \in {<<"5">>, <<"8">>, <<"1", "0">>},
      minor \in {<<"0">>, <<"5">>, <<"6">>, <<"7">>},
      patch \in {<<"1">>, <<"8">>, <<"3", "4">>},
      suffix \in {<<>>, MariaDBSuffix, <<"-", "l", "o", "g">>} }

Handshakes ==
  {NoHandshake} \cup
  {[present |-> TRUE, serverVersion |-> v] : v \in ServerVersions}

\* \d+ matches the whole of s
IsDigits(s) == Len(s) >= 1 /\ \A i \in 1..Len(s) : s[i] \in Digit

\* 10\.\d+\.\d+-MariaDB$ matches s from position i on
MatchesMariaDB10At(s, i) ==
  /\ i + 2 <= Len(s)
  /\ SubSeq(s, i, i + 2) = <<"1", "0", ".">>
  /\ \E j \in (i + 3)..Len(s) : \E k \in (j + 2)..Len(s) :
       /\ IsDigits(SubSeq(s, i + 3, j))
       /\ j + 1 <= Len(s)
       /\ s[j + 1] = "."
       /\ IsDigits(SubSeq(s, j + 2, k))
       /\ SubSeq(s, k + 1, Len(s)) = MariaDBSuffix

\* mutant: the pattern without its leading "-"
MatchesMariaDB10NoDash(s) == \E i \in 1..Len(s) : MatchesMariaDB10At(s, i)

\* /-10\.\d+\.\d+-MariaDB$/.test(s), line 40
MatchesMariaDB10(s) ==
  \E i \in 1..Len(s) : s[i] = "-" /\ MatchesMariaDB10At(s, i + 1)

\* /^5\.[6-7]\.\d+$/.test(s), line 42
MatchesMySQL56(s) ==
  /\ Len(s) >= 5
  /\ s[1] = "5"
  /\ s[2] = "."
  /\ s[3] \in {"6", "7"}
  /\ s[4] = "."
  /\ IsDigits(SubSeq(s, 5, Len(s)))

CouldNotConnect == Err("Could not establish connection", FALSE)

Unsupported == Err("Unsupported server implementation or version", FALSE)

\* detectDialect(con), lines 33-47: the dialect, or the error thrown
detectDialect(handshake) ==
  IF ~handshake.present
    THEN [dialect |-> "none", err |-> CouldNotConnect]
  ELSE IF MatchesMariaDB10(handshake.serverVersion)
    THEN [dialect |-> "MariaDB10", err |-> NoError]
  ELSE IF MatchesMySQL56(handshake.serverVersion)
    THEN [dialect |-> "MySQL56", err |-> NoError]
  ELSE [dialect |-> "none", err |-> Unsupported]

\* resolve(value) or reject(err) on a promise: a settled promise stays as
\* it is
Settle(promise, state, value, err) ==
  IF promise.state = "pending" THEN Promise(state, value, err) ELSE promise

\* the promise settles while the physical resource is in state raw
SettledAt(c, promise, raw) ==
  [c EXCEPT !.promise = promise,
            !.rawAtSettle = IF c.promise.state = "pending"
                               /\ promise.state # "pending"
                              THEN raw ELSE @]

ConnectErrors == {NoError, Err("connect", TRUE), Err("connect", FALSE)}

CreateInit ==
  /\ released = FALSE
  /\ txStatus = 0
  /\ fatalError = NoError
  /\ rawQueue = <<>>
  /\ physical = "inPool"
  /\ lastEvent = Event("init", "ok", NoError, FALSE)
  /\ tx = TxIdle(Undeclared)
  /\ SingleIdle
  /\ isPoolOptions \in BOOLEAN
  /\ PoolIdle
  /\ RestIdle

outsideCreate ==
  <<conVars, lastEvent, tx, spVars, ppVars, monVars, appVars, runs>>

\* lines 73-80 and 112-119: mysql2.createPool or createConnection
Create ==
  /\ creation.pc = "start"
  /\ \E throws \in BOOLEAN :
       creation' =
         IF throws
           THEN [SettledAt(creation,
                           Settle(creation.promise, "rejected", "none",
                                  Err("create", FALSE)), "none")
                   EXCEPT !.pc = "done"]
           ELSE [creation EXCEPT !.pc = "connecting", !.raw = "open"]
  /\ UNCHANGED outsideCreate

\* the callback of rawPool.getConnection, lines 84-107
PoolConnected ==
  /\ isPoolOptions
  /\ creation.pc = "connecting"
  /\ \E err \in ConnectErrors, handshake \in Handshakes :
       LET detected == detectDialect(handshake)
           failure  == IF err # NoError THEN err ELSE detected.err
       IN  /\ err # NoError => handshake = NoHandshake
           /\ creation' =
                IF failure = NoError
                  THEN [SettledAt(creation,
                                  Settle(creation.promise, "resolved",
                                         detected.dialect, NoError), "open")
                          EXCEPT !.handshake = handshake,
                                 !.conReleased = TRUE, !.pc = "done"]
                  ELSE [creation EXCEPT !.handshake = handshake,
                                        !.fatalError = failure,
                                        !.raw = "ending", !.pc = "ending"]
  /\ UNCHANGED outsideCreate

\* the callback of rawConnection.connect, lines 123-151; rawFatal is
\* rawConnection._fatalError
SingleConnected ==
  /\ ~isPoolOptions
  /\ creation.pc = "connecting"
  /\ \E err \in ConnectErrors, handshake \in Handshakes, rawFatal \in BOOLEAN :
       LET detected == detectDialect(handshake)
           failure  == IF err # NoError THEN err ELSE detected.err
           rejected == Settle(creation.promise, "rejected", "none", failure)
       IN  /\ err # NoError => handshake = NoHandshake
           /\ rawFatal => err # NoError
           /\ creation' =
                IF failure = NoError
                  THEN [SettledAt(creation,
                                  Settle(creation.promise, "resolved",
                                         detected.dialect, NoError), "open")
                          EXCEPT !.handshake = handshake, !.pc = "done"]
                ELSE IF rawFatal
                  THEN [SettledAt(creation, rejected, "destroyed")
                          EXCEPT !.handshake = handshake,
                                 !.fatalError = failure,
                                 !.raw = "destroyed", !.pc = "done"]
                ELSE [SettledAt(creation, rejected, "ending")
                        EXCEPT !.handshake = handshake, !.fatalError = failure,
                               !.raw = "ending", !.pc = "ending"]
  /\ UNCHANGED outsideCreate

\* the callback of rawPool.end or rawConnection.end, lines 100-105 and
\* 143-148
Ended ==
  /\ creation.pc = "ending"
  /\ \E endErr \in {NoError, Err("end", FALSE)} :
       creation' =
         [SettledAt(creation,
                    Settle(creation.promise, "rejected", "none",
                           creation.fatalError), "ended")
            EXCEPT !.raw = "ended", !.logged = endErr, !.pc = "done"]
  /\ UNCHANGED outsideCreate

CreateNext ==
  \/ Create
  \/ PoolConnected
  \/ SingleConnected
  \/ Ended

SpecCreate == CreateInit /\ [][CreateNext]_vars

----------------------------------------------------------------------------
(* Claims about the construction of a provider *)

Version5734 == <<"5", ".", "7", ".", "3", "4">>

Version801 == <<"8", ".", "0", ".", "1">>

Version1058MariaDB == <<"1", "0", ".", "5", ".", "8">> \o MariaDBSuffix

Version5551058MariaDB == <<"5", ".", "5", ".", "5", "-">> \o Version1058MariaDB

\* the handshake told the version and construction resolved with a provider
\* of the dialect
SelectsDialect(version, dialect) ==
  (creation.handshake.present /\ creation.handshake.serverVersion = version)
    => creation.promise = Promise("resolved", dialect, NoError)

\* the handshake told the version and construction fails with the
\* unsupported-version error
FailsUnsupported(version) ==
  (creation.handshake.present /\ creation.handshake.serverVersion = version)
    => /\ creation.fatalError = Unsupported
       /\ creation.promise.state # "resolved"
       /\ creation.promise.state = "rejected"
            => creation.promise.err = Unsupported
       /\ creation.pc = "done" => creation.promise.state = "rejected"

C27_TornDownBeforeRejected ==
  (creation.promise.state = "rejected" /\ creation.fatalError # NoError)
    => /\ creation.rawAtSettle \in {"ended", "destroyed"}
       /\ creation.promise.err = creation.fatalError

----------------------------------------------------------------------------
(* Application: init() and shutdown().  A service is known by the index of *)
(* its binder; declared[i] tells the keys it lists in                      *)
(* shutdownDependencies and whether it has a shutdown() method.            *)

Count == Len(declared)

AbortError == Err("The application began shutdown before initialization was complete", FALSE)

FactoryError == Err("factory", FALSE)

ServiceShutdownError == Err("service shutdown", FALSE)

\* what a service factory, or a shutdown() method, does when called
CallResults == {"threw", "value", "promise"}

\* lines 431-482: every initialized service is popped, last first; the
\* shutdown of a service awaits the shutdown promises that were filed under
\* its key by the services popped before it
popServices(a) ==
  [a EXCEPT
     !.services = <<>>,
     !.sd = [i \in 1..Count |->
               IF \E p \in 1..Len(a.services) : a.services[p] = i
                 THEN "waiting" ELSE a.sd[i]],
     !.waits = [i \in 1..Count |->
               {a.services[q] : q \in
                  {q \in 1..Len(a.services) :
                     /\ \E p \in 1..(q - 1) : a.services[p] = i
                     /\ i \in declared[a.services[q]].shutdownDependencies}}]]

\* shutdown() when neither shutting down nor initializing, lines 417-495
beginShutdown(a) ==
  [popServices(a) EXCEPT !.ready = FALSE, !.shutdownPromise = TRUE,
                         !.shutdownOutcome = "pending"]

\* shutdown(), lines 396-415
applicationShutdown(a) ==
  IF a.shutdownPromise
    THEN a
  ELSE IF a.initPromise
    THEN [a EXCEPT !.abortInit = TRUE, !.deferredShutdown = TRUE]
  ELSE beginShutdown(a)

\* init(), lines 304-368: results[i] is what the factory of binder i does
applicationInit(a, results) ==
  IF a.ready \/ a.shutdownPromise \/ a.initPromise
    THEN a
    ELSE [a EXCEPT
            !.factory = [i \in 1..Count |->
                           CASE results[i] = "threw" -> "rejected"
                             [] results[i] = "value" -> "resolved"
                             [] OTHER -> "pending"],
            !.sawBound = [i \in 1..Count |-> a.bound],
            !.invoked = [i \in 1..Count |-> i],
            !.chainNext = 1,
            !.chainState = "running",
            !.initErr = NoError,
            !.initOutcome = PendingPromise,
            !.produced = {},
            !.sd = [i \in 1..Count |-> "none"],
            !.waits = [i \in 1..Count |-> {}],
            !.sdLogged = [i \in 1..Count |-> NoError],
            !.sdInvoked = <<>>,
            !.shutdownOutcome = "none",
            !.initPromise = TRUE]

\* the handlers chained for binder i, lines 335-348
serviceInitialized(a, i) ==
  IF a.factory[i] = "rejected"
    THEN [a EXCEPT !.chainState = "rejected", !.initErr = FactoryError]
  ELSE IF a.abortInit
    THEN [a EXCEPT !.services = Append(@, i), !.abortInit = FALSE,
                   !.chainState = "rejected", !.initErr = AbortError]
  ELSE [a EXCEPT !.services = Append(@, i), !.bound = @ \cup {i},
                 !.chainNext = @ + 1]

\* mutant: an error of a service's shutdown() is not caught
serviceShutdownSettledNoCatch(a, i, err) ==
  IF err = NoError
    THEN [a EXCEPT !.sd[i] = "removed", !.bound = @ \ {i}]
    ELSE [a EXCEPT !.sd[i] = "failed", !.shutdownOutcome = "rejected"]

\* lines 453-462: the shutdown() of service i has settled; an error is
\* shown, and the service is removed
serviceShutdownSettled(a, i, err) ==
  [a EXCEPT !.sd[i] = "removed", !.sdLogged[i] = err, !.bound = @ \ {i}]

\* lines 439-466: the services service i waits for have shut down, and
\* service i is shut down
shutdownService(a, i, result) ==
  IF ~declared[i].hasShutdown
    THEN [a EXCEPT !.sd[i] = "removed", !.bound = @ \ {i}]
  ELSE IF result = "promise"
    THEN [a EXCEPT !.sd[i] = "running", !.sdInvoked = Append(@, i)]
  ELSE serviceShutdownSettled(
         [a EXCEPT !.sdInvoked = Append(@, i)], i,
         IF result = "threw" THEN ServiceShutdownError ELSE NoError)

\* the services an application is configured with
Declarations ==
  UNION { [1..n -> [shutdownDependencies : SUBSET (1..n),
                    hasShutdown : BOOLEAN]] : n \in 0..NumServices }

AppInit ==
  /\ released = FALSE
  /\ txStatus = 0
  /\ fatalError = NoError
  /\ rawQueue = <<>>
  /\ physical = "inPool"
  /\ lastEvent = Event("init", "ok", NoError, FALSE)
  /\ tx = TxIdle(Undeclared)
  /\ SingleIdle
  /\ isPoolOptions = TRUE
  /\ PoolIdle
  /\ MonitorIdle
  /\ creation = NotCreating
  /\ declared \in Declarations
  /\ \A i \in 1..Len(declared) : i \notin declared[i].shutdownDependencies
  /\ app = NewApplication(Len(declared))
  /\ runs = [r \in 1..NumRuns |-> NewRun]

outsideApp ==
  <<conVars, lastEvent, tx, spVars, ppVars, monVars, creation, runs>>

AppCallInit ==
  /\ app.initCalls < MaxInitCalls
  /\ \E results \in [1..Count -> CallResults] :
       app' = [applicationInit(app, results) EXCEPT !.initCalls = @ + 1]
  /\ UNCHANGED <<declared, outsideApp>>

\* the promise a factory returned settles
AppFactorySettles(i) ==
  /\ app.factory[i] = "pending"
  /\ \E state \in {"resolved", "rejected"} :
       app' = [app EXCEPT !.factory[i] = state]
  /\ UNCHANGED <<declared, outsideApp>>

AppServiceInitialized ==
  /\ app.chainState = "running"
  /\ app.chainNext <= Count
  /\ app.factory[app.chainNext] \in {"resolved", "rejected"}
  /\ app' = serviceInitialized(app, app.chainNext)
  /\ UNCHANGED <<declared, outsideApp>>

\* the completion handler of init(), lines 353-358
AppInitCompleted ==
  /\ app.chainState = "running"
  /\ app.chainNext = Count + 1
  /\ app' = [app EXCEPT
               !.initPromise = FALSE, !.ready = TRUE,
               !.chainState = "resolved",
               !.initOutcome = Promise("resolved", "app", NoError)]
  /\ UNCHANGED <<declared, outsideApp>>

\* the failure handler of init(), lines 359-363: shutdown() is called;
\* produced records the services whose factories had produced an instance
AppInitFailed ==
  /\ app.chainState = "rejected"
  /\ app' = applicationShutdown(
               [app EXCEPT !.initPromise = FALSE, !.chainState = "failed",
                           !.produced = {i \in 1..Count :
                                          app.factory[i] = "resolved"}])
  /\ UNCHANGED <<declared, outsideApp>>

\* line 411: init() has resolved and the shutdown() that was called during
\* the initialization calls shutdown() again
AppDeferredShutdown ==
  /\ app.deferredShutdown
  /\ app.chainState = "resolved"
  /\ app' = applicationShutdown([app EXCEPT !.deferredShutdown = FALSE])
  /\ UNCHANGED <<declared, outsideApp>>

AppCallShutdown ==
  /\ app.shutdownCalls < MaxShutdownCalls
  /\ app' = [applicationShutdown(app) EXCEPT !.shutdownCalls = @ + 1]
  /\ UNCHANGED <<declared, outsideApp>>

AppShutdownService(i) ==
  /\ app.sd[i] = "waiting"
  /\ \A t \in app.waits[i] : app.sd[t] = "removed"
  /\ \E result \in CallResults : app' = shutdownService(app, i, result)
  /\ UNCHANGED <<declared, outsideApp>>

AppServiceShutdownSettles(i) ==
  /\ app.sd[i] = "running"
  /\ \E err \in {NoError, ServiceShutdownError} :
       app' = serviceShutdownSettled(app, i, err)
  /\ UNCHANGED <<declared, outsideApp>>

\* lines 485-492, and line 362 when the shutdown was that of a failed
\* init(): every service shutdown promise has resolved
AppShutdownCompleted ==
  /\ app.shutdownPromise
  /\ app.shutdownOutcome = "pending"
  /\ \A i \in 1..Count : app.sd[i] \in {"none", "removed"}
  /\ app' = [app EXCEPT
               !.shutdownPromise = FALSE, !.shutdownOutcome = "resolved",
               !.deferredShutdown = FALSE,
               !.initOutcome = IF app.chainState = "failed"
                                 THEN Settle(@, "rejected", "none",
                                             app.initErr)
                                 ELSE @]
  /\ UNCHANGED <<declared, outsideApp>>

AppNext ==
  \/ AppCallInit
  \/ \E i \in 1..Count : AppFactorySettles(i)
  \/ AppServiceInitialized
  \/ AppInitCompleted
  \/ AppInitFailed
  \/ AppDeferredShutdown
  \/ AppCallShutdown
  \/ \E i \in 1..Count : AppShutdownService(i)
  \/ \E i \in 1..Count : AppServiceShutdownSettles(i)
  \/ AppShutdownCompleted

SpecApp == AppInit /\ [][AppNext]_vars

----------------------------------------------------------------------------
(* Claims about the Application *)

\* C28: init() calls the service factories in declared order, and calls the
\* factory of a service only when every service declared before it has been
\* initialized and is bound to the application under its key.
C28_FactorySeesEarlierServices ==
  /\ \A p \in 1..Len(app.invoked) : app.invoked[p] = p
  /\ \A i \in 1..Count :
       app.factory[i] # "notCalled"
         => \A j \in 1..(i - 1) : j \in app.sawBound[i]

\* C29: while the application shuts down, a service D that service S lists
\* in its shutdownDependencies is neither shut down nor removed before S has
\* completed its shutdown, whichever of the two was declared first.
C29_DependencyOutlivesDependent ==
  \A s \in 1..Count : \A d \in declared[s].shutdownDependencies :
    (app.sd[s] # "none" /\ app.sd[d] \in {"running", "removed"})
      => app.sd[s] = "removed"

ShutdownProgress ==
  \/ \E i \in 1..Count : AppShutdownService(i)
  \/ \E i \in 1..Count : AppServiceShutdownSettles(i)
  \/ AppShutdownCompleted

InitRejectsWith(err) ==
  /\ app.initOutcome.state = "pending"
  /\ app'.initOutcome.state = "rejected"
  /\ app'.initOutcome.err = err

\* service i has been shut down and removed when this step is over
ShutDownAndRemoved(i) ==
  /\ app'.sd[i] = "removed"
  /\ i \notin app'.bound
  /\ declared[i].hasShutdown
       => \E p \in 1..Len(app'.sdInvoked) : app'.sdInvoked[p] = i

\* C31: when a service factory throws or returns a rejecting promise, init()
\* rejects with the error of the factory only after the shutdown has
\* completed, and every service whose factory had produced an instance by
\* then, declared before or after the failing one, has been shut down and
\* removed from the application.
C31_FailedInitShutsDownInitialized ==
  [][InitRejectsWith(FactoryError)
       => /\ app'.shutdownOutcome = "resolved"
          /\ \A i \in app.produced : ShutDownAndRemoved(i)]_vars

\* the half of C31 about the services declared before the failing one
InitializedBeforeFailureShutDown ==
  [][InitRejectsWith(FactoryError)
       => /\ app'.shutdownOutcome = "resolved"
          /\ \A i \in 1..(app.chainNext - 1) : ShutDownAndRemoved(i)]_vars

\* C32: when shutdown() is called while init() is in progress, at any point
\* of the initialization, the promise of init() does not resolve: the
\* initialization is aborted and the promise rejects after the shutdown.
C32_ShutdownDuringInitRejectsInit ==
  app.deferredShutdown => app.initOutcome.state # "resolved"

\* the half of C32 about a shutdown() called before the last service was
\* bound: the handler of the next binder aborts the initialization, and
\* init() rejects with the abort error after the shutdown has completed
AbortedInitRejectsAfterShutdown ==
  [][InitRejectsWith(AbortError)
       => /\ app'.shutdownOutcome = "resolved"
          /\ \A i \in 1..app.chainNext : ShutDownAndRemoved(i)]_vars

----------------------------------------------------------------------------
(* Claims about the result parser of executeQuery *)

\* the error the parser has thrown for the query at the head of the queue
\* when this step is over: the one addRow threw first, or else the one
\* getResult throws in this step
ThrownByParser ==
  IF Head(rawQueue).thrown # NoError THEN Head(rawQueue).thrown
                                     ELSE lastEvent'.thrown

\* C33: an error thrown by addRow or getResult of the parser makes the
\* promise of executeQuery reject with that error; after the first error
\* no later row is passed to the parser and getResult is not called; the
\* promise settles once, when the query ends; and a parser error that is
\* not flagged fatal leaves the transaction status and the fatal error of
\* the connection as they were.
C33_ParserErrorRejectsQuery ==
  [][HeadIs("QUERY") =>
       /\ (lastEvent'.op \in {"queryResult", "queryEnd"}
             /\ Head(rawQueue).error # NoError)
            => lastEvent'.parser = "none"
       /\ lastEvent'.op \in {"queryResult", "queryError"}
            => /\ lastEvent'.res = "ok"
               /\ Len(rawQueue') = Len(rawQueue)
               /\ txStatus' = txStatus /\ fatalError' = fatalError
               /\ (Head(rawQueue).thrown # NoError
                     => Head(rawQueue').thrown = Head(rawQueue).thrown)
       /\ (lastEvent'.op = "queryEnd" /\ ThrownByParser # NoError)
            => /\ lastEvent'.res = "reject"
               /\ lastEvent'.err = ThrownByParser
               /\ rawQueue' = Tail(rawQueue)
               /\ ~ThrownByParser.fatal
                    => txStatus' = txStatus /\ fatalError' = fatalError
  ]_vars

\* a query has ended whose parser threw from addRow an error that is not
\* flagged fatal, after which another row and an error of the driver
\* arrived: the promise was rejected with the error of the parser
C33_Witness ==
  /\ lastEvent.op = "queryEnd"
  /\ lastEvent.res = "reject"
  /\ lastEvent.parser = "none"
  /\ lastEvent.err = Err("parser", FALSE)
  /\ fatalError = NoError
  /\ txStatus = 4

----------------------------------------------------------------------------
(* Claims about the order of the calls of Transaction.execute() *)

SuccessOrder ==
  <<"beginTransaction", "monitorTransaction", "execute",
    "saveSegmentUpdates", "endTransactionCommit", "release">>

IsPrefix(s, t) == Len(s) <= Len(t) /\ \A i \in 1..Len(s) : s[i] = t[i]

\* C34: while nothing has failed in a read/write execute(), the calls are
\* made in the order getConnection, beginTransaction, monitorTransaction,
\* execute of the master step, saveSegmentUpdates, endTransaction(Commit),
\* release, each after the promise of the one before it has resolved, and
\* execute() then resolves with the context the master step returned.
C34_SuccessPathOrder ==
  (readWrite(tx.writeSegments) /\ tx.failedAt = "none")
    => /\ IsPrefix(tx.calls, SuccessOrder)
       /\ tx.calls # <<>> => tx.acquired
       /\ IsPrefix(tx.resolved, tx.calls)
       /\ Len(tx.resolved) >= Len(tx.calls) - 1
       /\ tx.outcome.state # "pending"
            => IF tx.acquired
                 THEN /\ tx.calls = SuccessOrder
                      /\ tx.outcome = Resolved
                      /\ tx.value = "context"
                      /\ released
                 ELSE tx.outcome.state = "rejected"

\* a read/write execute() has resolved
C34_Witness ==
  /\ readWrite(tx.writeSegments)
  /\ tx.outcome = Resolved
  /\ tx.calls = SuccessOrder
  /\ tx.stepCalls > 0

----------------------------------------------------------------------------
(* Claims about what the connection sends while a transition is unanswered *)

TransitionCommands == {"START", "COMMIT", "ROLLBACK"}

\* a START TRANSACTION, COMMIT or ROLLBACK of the connection is unanswered
TransitionOutstanding ==
  \E i \in 1..Len(rawQueue) : rawQueue[i].cmd \in TransitionCommands

\* C35: the connection never hands a statement or a query to the driver
\* while a START TRANSACTION, COMMIT or ROLLBACK that it has sent is
\* unanswered, whatever the calls and the replies of the driver are.
C35_NothingSentMidTransition ==
  [][(lastEvent'.op \in ExecuteCalls /\ TransitionOutstanding)
       => (~lastEvent'.sent /\ rawQueue' = rawQueue)]_vars

\* a statement was called while START TRANSACTION was unanswered and after
\* the fatal error of an overlapping operation had put the status back to 0:
\* it was rejected and not sent
C35_Witness ==
  /\ lastEvent.op \in ExecuteCalls
  /\ lastEvent.res = "reject"
  /\ ~lastEvent.sent
  /\ txStatus = 0
  /\ fatalError # NoError
  /\ \E i \in 1..Len(rawQueue) : rawQueue[i].cmd = "START"

\* C36: in every reachable state of a connection a recorded fatal error
\* implies status 0, also when the replies to overlapping operations arrive
\* after the fatal error was recorded.
C36_FatalImpliesIdle ==
  fatalError # NoError => txStatus = 0

----------------------------------------------------------------------------
(* Claims about the state of the connection at the calls of execute() *)

\* the call made in this step, "none" when the step makes no call
CallMade ==
  IF Len(tx'.calls) = Len(tx.calls) + 1 THEN tx'.calls[Len(tx'.calls)]
                                        ELSE "none"

\* C37: with a master step that only runs statements and queries and awaits
\* them, execute() never triggers a programming error on the connection:
\* beginTransaction is called in status 0, monitorTransaction and the master
\* step in status 4, endTransaction(Commit) in status 4 or with a fatal
\* error recorded, endTransaction(Rollback) in status 3 or 4 or with a fatal
\* error recorded, and release in status 0, for all outcomes of the driver.
C37_NoProgrammingErrorInExecute ==
  [][/\ Len(tx'.calls) <= Len(tx.calls) + 1
     /\ CallMade = "beginTransaction" => txStatus = 0
     /\ CallMade = "monitorTransaction" => txStatus' = 4
     /\ CallMade = "execute" => txStatus = 4
     /\ CallMade = "endTransactionCommit"
          => (txStatus = 4 \/ fatalError # NoError)
     /\ CallMade = "endTransactionRollback"
          => (txStatus >= 3 \/ fatalError # NoError)
     /\ CallMade = "release" => (txStatus = 0 /\ ~released)
     /\ tx'.cause # ProgrammingError
     /\ tx'.stepErr # ProgrammingError
     /\ tx'.result # Rejected(ProgrammingError)
     /\ tx'.outcome # Rejected(ProgrammingError)]_vars

\* COMMIT failed with an error not flagged fatal, the transaction was rolled
\* back from status 3 and the connection released in status 0
C37_Witness ==
  /\ tx.pc = "done"
  /\ tx.failedAt = "commit"
  /\ ~tx.cause.fatal
  /\ tx.rollbackCalls = 1
  /\ tx.logged = NoError
  /\ released
  /\ fatalError = NoError

----------------------------------------------------------------------------
(* The monitor provider variant of Transaction.execute(): getConnection,   *)
(* then getMonitor, then the master step, with the two release() calls in  *)
(* finally handlers.  The transaction object is built once and executed    *)
(* many times, so several runs go on at once.                              *)

VariantInit ==
  /\ released = FALSE
  /\ txStatus = 0
  /\ fatalError = NoError
  /\ rawQueue = <<>>
  /\ physical = "inPool"
  /\ lastEvent = Event("init", "ok", NoError, FALSE)
  /\ tx = TxIdle(Undeclared)
  /\ SingleIdle
  /\ isPoolOptions = TRUE
  /\ PoolIdle
  /\ RestIdle

outsideVariant ==
  <<conVars, lastEvent, tx, spVars, ppVars, monVars, creation, appVars>>

\* lines 46-47: getConnection() settles
VariantGetConnection(r) ==
  /\ runs[r].pc = "idle"
  /\ \E ok \in BOOLEAN :
       runs' = [runs EXCEPT ![r] =
         IF ok THEN [@ EXCEPT !.acquired = TRUE, !.pc = "acquired"]
               ELSE [@ EXCEPT !.outcome = "rejected", !.pc = "done"]]
  /\ UNCHANGED outsideVariant

\* lines 48-50: the handler of getConnection calls getMonitor(con); when the
\* call throws, the handler throws before any finally handler is attached
VariantGetMonitor(r) ==
  /\ runs[r].pc = "acquired"
  /\ \E throws \in BOOLEAN :
       runs' = [runs EXCEPT ![r] =
         IF throws
           THEN [@ EXCEPT !.threw = "getMonitor", !.outcome = "rejected",
                          !.pc = "done"]
           ELSE [@ EXCEPT !.pc = "awaitMonitor"]]
  /\ UNCHANGED outsideVariant

\* lines 50-53: getMonitor rejects, or it resolves and the handler calls the
\* master step; when that call throws, the handler throws before the finally
\* handler that releases the monitor is attached
VariantMonitorSettles(r) ==
  /\ runs[r].pc = "awaitMonitor"
  /\ \E result \in {"rejected", "stepThrows", "stepCalled"} :
       runs' = [runs EXCEPT ![r] =
         CASE result = "rejected" ->
                [@ EXCEPT !.outcome = "rejected", !.pc = "conFinally"]
           [] result = "stepThrows" ->
                [@ EXCEPT !.allocated = TRUE, !.threw = "execute",
                          !.outcome = "rejected", !.pc = "conFinally"]
           [] OTHER -> [@ EXCEPT !.allocated = TRUE, !.pc = "inStep"]]
  /\ UNCHANGED outsideVariant

\* the promise of the master step settles
VariantStepSettles(r) ==
  /\ runs[r].pc = "inStep"
  /\ \E state \in {"resolved", "rejected"} :
       runs' = [runs EXCEPT ![r].outcome = state, ![r].pc = "monFinally"]
  /\ UNCHANGED outsideVariant

\* lines 53-57: the finally handler of the master step; an error thrown by
\* mon.release() replaces what the step settled with
VariantMonFinally(r) ==
  /\ runs[r].pc = "monFinally"
  /\ \E throws \in BOOLEAN :
       runs' = [runs EXCEPT
         ![r].releases = Append(@, "mon"),
         ![r].outcome = IF throws THEN "rejected" ELSE @,
         ![r].pc = "conFinally"]
  /\ UNCHANGED outsideVariant

\* lines 58-62: the finally handler of the getMonitor chain
VariantConFinally(r) ==
  /\ runs[r].pc = "conFinally"
  /\ runs' = [runs EXCEPT ![r].releases = Append(@, "con"), ![r].pc = "done"]
  /\ UNCHANGED outsideVariant

VariantNext ==
  \E r \in 1..NumRuns :
    \/ VariantGetConnection(r)
    \/ VariantGetMonitor(r)
    \/ VariantMonitorSettles(r)
    \/ VariantStepSettles(r)
    \/ VariantMonFinally(r)
    \/ VariantConFinally(r)

SpecVariant == VariantInit /\ [][VariantNext]_vars

----------------------------------------------------------------------------
(* Claims about the monitor provider variant *)

ReleasesOf(run, what) ==
  {i \in 1..Len(run.releases) : run.releases[i] = what}

\* the monitor and the connection of the run were released as they must be
ReleasedInOrder(run) ==
  /\ run.acquired => Cardinality(ReleasesOf(run, "con")) = 1
  /\ run.allocated
       => /\ Cardinality(ReleasesOf(run, "mon")) = 1
          /\ \A i \in ReleasesOf(run, "mon") :
               \A j \in ReleasesOf(run, "con") : i < j

\* C38: on every exit path of the monitor provider variant of execute(), a
\* monitor that was allocated is released exactly once and before the
\* connection, and a connection that was acquired is released exactly once.
C38_MonitorThenConnectionReleased ==
  \A r \in 1..NumRuns :
    /\ Cardinality(ReleasesOf(runs[r], "con")) <= 1
    /\ Cardinality(ReleasesOf(runs[r], "mon")) <= 1
    /\ runs[r].pc = "done" => ReleasedInOrder(runs[r])

\* the part of C38 that the code keeps: the exit paths on which neither
\* getMonitor nor the master step throws when called
ReleasedUnlessCallThrows ==
  \A r \in 1..NumRuns :
    (runs[r].pc = "done" /\ runs[r].threw = "none")
      => ReleasedInOrder(runs[r])

----------------------------------------------------------------------------
(* Claims about the blocker of the single connection provider *)

\* the callback of caller c waits on the unresolved blocker
Parked(c) == InSeq(connectionBlocker, c)

\* the blocker that caller c waited on was unblocked, and the callback of c
\* is queued to run
Woken(c) == \E i \in 1..Len(microtasks) : microtasks[i] = WakeJob(c)

\* C39: the single connection provider has an unresolved blocker only while
\* the connection is checked out, so no caller stays parked on an
\* unresolved blocker while the connection is free: each waiting caller is
\* parked on the blocker of a checked-out connection or has been woken.
C39_BlockerOnlyWhileAllocated ==
  /\ connectionBlocker # NoBlocker => connectionAllocated
  /\ \A c \in Callers :
       /\ caller[c] = "waiting" => (Parked(c) \/ Woken(c))
       /\ Parked(c) => (connectionAllocated /\ caller[c] = "waiting")

\* the connection was released while two callers were parked: the blocker
\* is gone, the connection is free and both callers have been woken
C39_Witness ==
  /\ provEvent.op = "release"
  /\ ~connectionAllocated
  /\ connectionBlocker = NoBlocker
  /\ Cardinality({c \in Callers : caller[c] = "waiting" /\ Woken(c)}) = 2

\* C40: the single connection provider tears its physical connection down
\* at most once: destroy() and end() are never both called on it, and
\* neither is called twice.
C40_TornDownAtMostOnce ==
  rawEndCalls + rawDestroyCalls <= 1

\* the part of C40 that the code keeps: neither end() nor destroy() is
\* called twice, and end() is not called after destroy()
NoSecondEndOrDestroy ==
  /\ rawEndCalls <= 1
  /\ rawDestroyCalls <= 1
  /\ [][rawDestroyCalls > 0 => rawEndCalls' = rawEndCalls]_vars

=============================================================================
